---------------------------- MODULE Spec2Model ----------------------------
(***************************************************************************)
(* Model of the query-intent pipeline of jira-agentic-ai:                  *)
(*   NaturalLanguageQueryParser (src/src/agent/query_parser.py),           *)
(*   JQLGenerator               (src/src/agent/jql_generator.py),          *)
(*   JiraAgenticAI.process_query (src/web_interface.py).                   *)
(*                                                                         *)
(* A Python str is a sequence of one-character strings, so that regular    *)
(* expressions, case conversion, quoting and formatting are computed       *)
(* character by character.  None is the empty tuple << >> and a present    *)
(* value v is << v >> wherever the code distinguishes None from a value.   *)
(***************************************************************************)
EXTENDS Integers, Sequences, FiniteSets, TLC

(***************************************************************************)
(* Characters and strings                                                  *)
(***************************************************************************)
UpperLetters == <<"A","B","C","D","E","F","G","H","I","J","K","L","M",
                  "N","O","P","Q","R","S","T","U","V","W","X","Y","Z">>
LowerLetters == <<"a","b","c","d","e","f","g","h","i","j","k","l","m",
                  "n","o","p","q","r","s","t","u","v","w","x","y","z">>
DigitChars == <<"0","1","2","3","4","5","6","7","8","9">>

Range(s) == {s[i] : i \in DOMAIN s}
UpperSet == Range(UpperLetters)
LowerSet == Range(LowerLetters)
DigitSet == Range(DigitChars)
\* A CJK character is written as its code point: "U6211" is one character.
CjkSet == {
    "U6211", "U7684", "U505A", "U5DE5", "U4F5C", "U5E74", "U6708",
    "U4ECA", "U5929", "U6628", "U53BB", "U672C", "U9019", "U4E0A",
    "U9031", "U500B", "U5C08", "U6848", "U5B8C", "U6210", "U9032",
    "U884C", "U4E2D", "U5F85", "U8FA6", "U72C0", "U614B", "U7528",
    "U6236", "U4F7F", "U8005", "U627E", "U641C", "U5C0B", "U67E5",
    "U8A62", "U9805", "U76EE", "U65E5", "U671F", "U6642", "U9593",
    "U6A19", "U95DC", "U9375", "U7D50", "U679C", "U5716", "U8868",
    "U6392", "U699C", "U7D71", "U8A08", "U5831", "U529F", "U80FD",
    "U7279", "U6027", "U932F", "U8AA4", "U554F", "U984C", "U4FEE",
    "U5FA9", "U4EFB", "U52D9", "U6700", "U4E45", "U65B0", "U8FD1",
    "U4EE5", "U5916", "U9577", "U7559", "U8A00", "U6578", "U8A55",
    "U8AD6", "U8A0E", "U6301", "U7E8C", "U8655", "U7406", "U5EFA",
    "U591A", "U5EA6" }

IndexOf(c, s) == CHOOSE i \in DOMAIN s : s[i] = c

\* str.lower() / str.upper() on one character
LowerMap == [c \in UpperSet |-> LowerLetters[IndexOf(c, UpperLetters)]]
UpperMap == [c \in LowerSet |-> UpperLetters[IndexOf(c, LowerLetters)]]
LowerChar(c) == IF c \in UpperSet THEN LowerMap[c] ELSE c
UpperChar(c) == IF c \in LowerSet THEN UpperMap[c] ELSE c

StrLower(s) == [i \in DOMAIN s |-> LowerChar(s[i])]
StrUpper(s) == [i \in DOMAIN s |-> UpperChar(s[i])]

IsDigit(c) == c \in DigitSet
\* the characters str.split() and \s take for whitespace; "U3000" is the
\* ideographic space
WhitespaceSet == {" ", "\t", "U3000"}
IsSpace(c) == c \in WhitespaceSet
IsCased(c) == c \in UpperSet \/ c \in LowerSet
\* the regular-expression class \w on str patterns (Unicode word characters)
IsWordChar(c) == c \in UpperSet \/ c \in LowerSet \/ c \in DigitSet \/ c \in CjkSet \/ c = "_"

\* str.capitalize(): first character upper-cased, the rest lower-cased
StrCapitalize(s) ==
    [i \in DOMAIN s |-> IF i = 1 THEN UpperChar(s[i]) ELSE LowerChar(s[i])]

\* str.title(): a cased character is upper-cased after an uncased one
\* (or at the start) and lower-cased after a cased one
StrTitle(s) ==
    [i \in DOMAIN s |->
        IF i = 1 \/ ~IsCased(s[i - 1]) THEN UpperChar(s[i]) ELSE LowerChar(s[i])]

\* needle in haystack (substring test of Python's `in`)
MatchAt(needle, hay, i) ==
    /\ i + Len(needle) - 1 <= Len(hay)
    /\ \A k \in 1..Len(needle) : hay[i + k - 1] = needle[k]
Contains(hay, needle) == \E i \in 1..(Len(hay) + 1) : MatchAt(needle, hay, i)

RECURSIVE Concat(_)
Concat(ss) == IF ss = << >> THEN << >> ELSE Head(ss) \o Concat(Tail(ss))

\* sep.join(parts)
RECURSIVE Join(_, _)
Join(sep, parts) ==
    IF parts = << >> THEN << >>
    ELSE IF Len(parts) = 1 THEN parts[1]
    ELSE parts[1] \o sep \o Join(sep, Tail(parts))

\* int(s) for a string of decimal digits
DigitVal(c) == IndexOf(c, DigitChars) - 1
RECURSIVE StrToInt(_)
StrToInt(s) ==
    IF s = << >> THEN 0
    ELSE 10 * StrToInt(SubSeq(s, 1, Len(s) - 1)) + DigitVal(s[Len(s)])

\* str(n) for n >= 0
RECURSIVE IntToStr(_)
IntToStr(n) ==
    IF n < 10 THEN << DigitChars[n + 1] >>
    ELSE IntToStr(n \div 10) \o << DigitChars[(n % 10) + 1] >>

\* f"{n:02d}"
Pad2(n) == IF n < 10 THEN <<"0">> \o IntToStr(n) ELSE IntToStr(n)

None == << >>
Some(v) == << v >>
Truthy(opt) == opt # None /\ opt[1] # << >>

(***************************************************************************)
(* Results of calls: a returned value or a raised exception                *)
(***************************************************************************)
Ret(v) == [raised |-> FALSE, err |-> "", val |-> v]
Raise(e) == [raised |-> TRUE, err |-> e, val |-> None]

(***************************************************************************)
(* Calendar (datetime / arrow).  A date is [y, m, d].                      *)
(***************************************************************************)
IsLeap(y) == (y % 4 = 0 /\ y % 100 # 0) \/ y % 400 = 0
DaysInMonth(y, m) ==
    IF m = 2 THEN (IF IsLeap(y) THEN 29 ELSE 28)
    ELSE IF m \in {4, 6, 9, 11} THEN 30 ELSE 31

Date(y, m, d) == [y |-> y, m |-> m, d |-> d]
DateLeq(a, b) ==
    \/ a.y < b.y
    \/ a.y = b.y /\ a.m < b.m
    \/ a.y = b.y /\ a.m = b.m /\ a.d <= b.d

\* strftime('%Y-%m-%d') / arrow format('YYYY-MM-DD')
FormatDate(dt) == IntToStr(dt.y) \o <<"-">> \o Pad2(dt.m) \o <<"-">> \o Pad2(dt.d)

PrevDay(dt) ==
    IF dt.d > 1 THEN Date(dt.y, dt.m, dt.d - 1)
    ELSE IF dt.m > 1 THEN Date(dt.y, dt.m - 1, DaysInMonth(dt.y, dt.m - 1))
    ELSE Date(dt.y - 1, 12, 31)
NextDay(dt) ==
    IF dt.d < DaysInMonth(dt.y, dt.m) THEN Date(dt.y, dt.m, dt.d + 1)
    ELSE IF dt.m < 12 THEN Date(dt.y, dt.m + 1, 1)
    ELSE Date(dt.y + 1, 1, 1)
RECURSIVE AddDays(_, _)
AddDays(dt, n) ==
    IF n = 0 THEN dt
    ELSE IF n > 0 THEN AddDays(NextDay(dt), n - 1)
    ELSE AddDays(PrevDay(dt), n + 1)

\* date.toordinal() and date.weekday() (Monday = 0)
RECURSIVE DaysBeforeMonth(_, _)
DaysBeforeMonth(y, m) ==
    IF m = 1 THEN 0 ELSE DaysBeforeMonth(y, m - 1) + DaysInMonth(y, m - 1)
Ordinal(dt) ==
    365 * (dt.y - 1) + ((dt.y - 1) \div 4) - ((dt.y - 1) \div 100)
      + ((dt.y - 1) \div 400) + DaysBeforeMonth(dt.y, dt.m) + dt.d
Weekday(dt) == (Ordinal(dt) + 6) % 7

\* arrow floor / ceil of 'month' and 'week', shift(months=-1)
FloorMonth(dt) == Date(dt.y, dt.m, 1)
CeilMonth(dt) == Date(dt.y, dt.m, DaysInMonth(dt.y, dt.m))
FloorWeek(dt) == AddDays(dt, 0 - Weekday(dt))
CeilWeek(dt) == AddDays(dt, 6 - Weekday(dt))
ShiftMonthBack(dt) ==
    LET y == IF dt.m = 1 THEN dt.y - 1 ELSE dt.y
        m == IF dt.m = 1 THEN 12 ELSE dt.m - 1
        dim == DaysInMonth(y, m)
    IN  Date(y, m, IF dt.d > dim THEN dim ELSE dt.d)

\* a (start, end) tuple of formatted dates
Span(a, b) == [start |-> a, end |-> b]

(***************************************************************************)
(* Time Resolver: regular expressions of _get_dynamic_time_patterns        *)
(***************************************************************************)
Min(S) == CHOOSE x \in S : \A y \in S : x <= y

\* index of the first character at or after j that \s* does not consume
RECURSIVE SkipSpaces(_, _)
SkipSpaces(s, j) ==
    IF j <= Len(s) /\ IsSpace(s[j]) THEN SkipSpaces(s, j + 1) ELSE j

DigitsAt(s, i, n) == i + n - 1 <= Len(s) /\ \A k \in i..(i + n - 1) : IsDigit(s[k])
CharAt(s, j, c) == j <= Len(s) /\ s[j] = c

\* re.search of a pattern: the groups of the leftmost match, or None
RECURSIVE FirstMatchFrom(_, _, _)
FirstMatchFrom(s, MatchFrom(_), i) ==
    IF i > Len(s) THEN None
    ELSE LET m == MatchFrom(i)
         IN  IF m # None THEN m ELSE FirstMatchFrom(s, MatchFrom, i + 1)
FirstMatch(s, MatchFrom(_)) == FirstMatchFrom(s, MatchFrom, 1)

\* (\d{4})\s*Q([1-4])
QuarterAt(s, i) ==
    IF DigitsAt(s, i, 4)
    THEN LET j == SkipSpaces(s, i + 4)
         IN  IF CharAt(s, j, "Q") /\ j + 1 <= Len(s) /\ s[j + 1] \in {"1", "2", "3", "4"}
             THEN Some(<<SubSeq(s, i, i + 3), <<s[j + 1]>> >>)
             ELSE None
    ELSE None
QuarterSearch(s) == FirstMatch(s, LAMBDA i : QuarterAt(s, i))

\* (\d{1,2})\s*M at position j, M the month character U+6708: two digits are tried first
MonthTail(s, j) ==
    IF DigitsAt(s, j, 2) /\ CharAt(s, SkipSpaces(s, j + 2), "U6708")
    THEN Some(SubSeq(s, j, j + 1))
    ELSE IF DigitsAt(s, j, 1) /\ CharAt(s, SkipSpaces(s, j + 1), "U6708")
    THEN Some(SubSeq(s, j, j))
    ELSE None

\* (\d{4})\s*Y\s*(\d{1,2})\s*M, Y the year character U+5E74
YearMonthAt(s, i) ==
    IF DigitsAt(s, i, 4)
    THEN LET j == SkipSpaces(s, i + 4)
         IN  IF CharAt(s, j, "U5E74")
             THEN LET t == MonthTail(s, SkipSpaces(s, j + 1))
                  IN  IF t # None THEN Some(<<SubSeq(s, i, i + 3), t[1]>>) ELSE None
             ELSE None
    ELSE None
YearMonthSearch(s) == FirstMatch(s, LAMBDA i : YearMonthAt(s, i))

\* (\d{1,2})\s*M
MonthAt(s, i) ==
    LET t == MonthTail(s, i) IN IF t # None THEN Some(<<t[1]>>) ELSE None
MonthSearch(s) == FirstMatch(s, LAMBDA i : MonthAt(s, i))

\* a pattern without groups: groups() is the empty tuple
WordSearch(s, words) ==
    IF \E w \in words : Contains(s, w) THEN Some(<< >>) ELSE None

\* the literal alternatives of the relative-time patterns
TimeWords ==
    [today |-> {<<"U4ECA", "U5929">>},
     yesterday |-> {<<"U6628", "U5929">>},
     this_week |-> {<<"U9019", "U9031">>, <<"U672C", "U9031">>},
     last_week |-> {<<"U4E0A", "U9031">>},
     this_month |-> {<<"U9019", "U500B", "U6708">>, <<"U672C", "U6708">>},
     last_month |-> {<<"U4E0A", "U500B", "U6708">>},
     this_year |-> {<<"U4ECA", "U5E74">>, <<"U672C", "U5E74">>},
     last_year |-> {<<"U53BB", "U5E74">>}]
sJan1 == <<"-", "0", "1", "-", "0", "1">>
sDec31 == <<"-", "1", "2", "-", "3", "1">>

(***************************************************************************)
(* Time Resolver: the parser functions.  now is datetime.now().            *)
(***************************************************************************)
AllowedYears(now) == {now.y, now.y - 1}

_parse_today(now) == Ret(Some(Span(FormatDate(now), FormatDate(now))))
_parse_yesterday(now) ==
    Ret(Some(Span(FormatDate(PrevDay(now)), FormatDate(PrevDay(now)))))

quarter_starts == <<[m |-> 1, d |-> 1], [m |-> 4, d |-> 1], [m |-> 7, d |-> 1], [m |-> 10, d |-> 1]>>
quarter_ends == <<[m |-> 3, d |-> 31], [m |-> 6, d |-> 30], [m |-> 9, d |-> 30], [m |-> 12, d |-> 31]>>

_parse_quarter(groups, now) ==
    LET year == StrToInt(groups[1])
        quarter == StrToInt(groups[2])
    IN  IF year \notin AllowedYears(now) THEN Ret(None)
        ELSE Ret(Some(Span(
               IntToStr(year) \o <<"-">> \o Pad2(quarter_starts[quarter].m)
                   \o <<"-">> \o Pad2(quarter_starts[quarter].d),
               IntToStr(year) \o <<"-">> \o Pad2(quarter_ends[quarter].m)
                   \o <<"-">> \o Pad2(quarter_ends[quarter].d))))

\* a month span whose February never has a 29th day
NoLeapMonthSpan(year, month) ==
    IF month \notin 1..12 THEN Raise("ValueError")
    ELSE Ret(Some(Span(FormatDate(Date(year, month, 1)),
                       FormatDate(Date(year, month,
                                       IF month = 2 THEN 28 ELSE DaysInMonth(year, month))))))

\* arrow.get(year, month, 1) raises ValueError unless 1 <= month <= 12
MonthSpan(year, month) ==
    IF month \notin 1..12 THEN Raise("ValueError")
    ELSE Ret(Some(Span(FormatDate(Date(year, month, 1)),
                       FormatDate(CeilMonth(Date(year, month, 1))))))

_parse_year_month(groups, now) ==
    LET year == StrToInt(groups[1])
        month == StrToInt(groups[2])
    IN  IF year \notin AllowedYears(now) THEN Ret(None) ELSE MonthSpan(year, month)

\* a bare month read as a month of the current year always
CurrentYearMonth(groups, now) ==
    IF StrToInt(groups[1]) \notin 1..12 THEN Raise("ValueError")
    ELSE MonthSpan(now.y, StrToInt(groups[1]))

_parse_month(groups, now) ==
    LET month == StrToInt(groups[1])
    IN  IF month \notin 1..12 THEN Raise("ValueError")
        ELSE IF DateLeq(Date(now.y, month, 1), now) THEN MonthSpan(now.y, month)
        ELSE MonthSpan(now.y - 1, month)

_parse_this_year(now) ==
    Ret(Some(Span(IntToStr(now.y) \o sJan1, IntToStr(now.y) \o sDec31)))
_parse_last_year(now) ==
    Ret(Some(Span(IntToStr(now.y - 1) \o sJan1, IntToStr(now.y - 1) \o sDec31)))

_parse_specific_year(year, now) ==
    IF year \notin AllowedYears(now) THEN Ret(None)
    ELSE Ret(Some(Span(IntToStr(year) \o sJan1, IntToStr(year) \o sDec31)))

_parse_this_month(now) ==
    Ret(Some(Span(FormatDate(FloorMonth(now)), FormatDate(CeilMonth(now)))))
_parse_last_month(now) ==
    Ret(Some(Span(FormatDate(FloorMonth(ShiftMonthBack(now))),
                  FormatDate(CeilMonth(ShiftMonthBack(now))))))
_parse_this_week(now) ==
    Ret(Some(Span(FormatDate(FloorWeek(now)), FormatDate(CeilWeek(now)))))
_parse_last_week(now) ==
    Ret(Some(Span(FormatDate(FloorWeek(AddDays(now, 0 - 7))),
                  FormatDate(CeilWeek(AddDays(now, 0 - 7))))))

\* the two entries added last are lambdas of no parameter; _extract_time_range
\* calls every entry with one positional argument
YearTokenParser(year, now, nargs) ==
    IF nargs # 0 THEN Raise("TypeError") ELSE _parse_specific_year(year, now)

(***************************************************************************)
(* _extract_time_range: the patterns in the insertion order of the dict    *)
(***************************************************************************)
TimePatternOrder ==
    <<"quarter", "year_month", "month", "today", "yesterday", "this_week",
      "last_week", "this_month", "last_month", "this_year", "last_year",
      "current_year_token", "last_year_token">>

\* the keys of time_patterns, as written in the source
TimePatternSources(now) ==
    <<<<"(", "\\", "d", "{", "4", "}", ")", "\\", "s", "*", "Q", "(", "[", "1", "-", "4", "]", ")">>,
      <<"(", "\\", "d", "{", "4", "}", ")", "\\", "s", "*", "U5E74", "\\", "s", "*", "(", "\\", "d", "{", "1", ",", "2", "}", ")", "\\", "s", "*", "U6708">>,
      <<"(", "\\", "d", "{", "1", ",", "2", "}", ")", "\\", "s", "*", "U6708">>,
      <<"U4ECA", "U5929">>, <<"U6628", "U5929">>, <<"U9019", "U9031", "|", "U672C", "U9031">>, <<"U4E0A", "U9031">>, <<"U9019", "U500B", "U6708", "|", "U672C", "U6708">>, <<"U4E0A", "U500B", "U6708">>,
      <<"U4ECA", "U5E74", "|", "U672C", "U5E74">>, <<"U53BB", "U5E74">>,
      IntToStr(now.y), IntToStr(now.y - 1)>>

PatternSearch(p, s, now) ==
    CASE p = "quarter" -> QuarterSearch(s)
      [] p = "year_month" -> YearMonthSearch(s)
      [] p = "month" -> MonthSearch(s)
      [] p = "current_year_token" -> WordSearch(s, {IntToStr(now.y)})
      [] p = "last_year_token" -> WordSearch(s, {IntToStr(now.y - 1)})
      [] OTHER -> WordSearch(s, TimeWords[p])

\* parser_func(groups or ()): every entry is called with one argument
PatternParser(p, groups, now) ==
    CASE p = "quarter" -> _parse_quarter(groups, now)
      [] p = "year_month" -> _parse_year_month(groups, now)
      [] p = "month" -> _parse_month(groups, now)
      [] p = "today" -> _parse_today(now)
      [] p = "yesterday" -> _parse_yesterday(now)
      [] p = "this_week" -> _parse_this_week(now)
      [] p = "last_week" -> _parse_last_week(now)
      [] p = "this_month" -> _parse_this_month(now)
      [] p = "last_month" -> _parse_last_month(now)
      [] p = "this_year" -> _parse_this_year(now)
      [] p = "last_year" -> _parse_last_year(now)
      [] p = "current_year_token" -> YearTokenParser(now.y, now, 1)
      [] p = "last_year_token" -> YearTokenParser(now.y - 1, now, 1)

\* the loop of _extract_time_range from the k-th pattern on: a match whose
\* parser returns None is passed over, an exception of the parser leaves the loop
RECURSIVE ExtractFrom(_, _, _)
ParsedOrNext(r, s, now, k) ==
    IF r.raised \/ r.val # None THEN r ELSE ExtractFrom(s, now, k + 1)
MatchedOrNext(p, g, s, now, k) ==
    IF g = None THEN ExtractFrom(s, now, k + 1)
    ELSE ParsedOrNext(PatternParser(p, g[1], now), s, now, k)
ExtractFrom(s, now, k) ==
    IF k > Len(TimePatternOrder) THEN Ret(None)
    ELSE MatchedOrNext(TimePatternOrder[k], PatternSearch(TimePatternOrder[k], s, now),
                       s, now, k)

\* the text the patterns are searched in
TimeSubject(query) == StrLower(query)

_extract_time_range(query, now) == ExtractFrom(TimeSubject(query), now, 1)


(***************************************************************************)
(* Pattern-matching path: intent_patterns and _basic_parse                 *)
(***************************************************************************)
intent_patterns ==
    [search |-> <<<<"U627E">>, <<"U641C", "U5C0B">>, <<"U67E5", "U8A62">>, <<"s", "e", "a", "r", "c", "h">>, <<"f", "i", "n", "d">>>>,
     user |-> <<<<"U6211", "U7684">>, <<"U7528", "U6236">>, <<"U4F7F", "U7528", "U8005">>, <<"u", "s", "e", "r">>, <<"a", "s", "s", "i", "g", "n", "e", "e">>, <<"U6211">>, <<"U6211", "U505A">>>>,
     status |-> <<<<"U72C0", "U614B">>, <<"s", "t", "a", "t", "u", "s">>, <<"U9032", "U884C", "U4E2D">>, <<"U5B8C", "U6210">>, <<"U5F85", "U8FA6">>, <<"U5B8C", "U6210", "U7684">>,
                  <<"U9032", "U884C", "U4E2D", "U7684">>, <<"U5F85", "U8FA6", "U7684">>>>,
     project |-> <<<<"U5C08", "U6848">>, <<"p", "r", "o", "j", "e", "c", "t">>, <<"U9805", "U76EE">>>>,
     date |-> <<<<"U65E5", "U671F">>, <<"U6642", "U9593">>, <<"d", "a", "t", "e">>, <<"c", "r", "e", "a", "t", "e", "d">>, <<"u", "p", "d", "a", "t", "e", "d">>>>,
     okr |-> <<<<"o", "k", "r">>, <<"U76EE", "U6A19">>, <<"U95DC", "U9375", "U7D50", "U679C">>, <<"k", "e", "y", " ", "r", "e", "s", "u", "l", "t">>, <<"o", "b", "j", "e", "c", "t", "i", "v", "e", "s">>>>,
     chart |-> <<<<"c", "h", "a", "r", "t">>, <<"U5716", "U8868">>, <<"U6392", "U884C", "U699C">>, <<"U7D71", "U8A08">>, <<"d", "a", "s", "h", "b", "o", "a", "r", "d">>, <<"U5831", "U8868">>>>,
     feature |-> <<<<"f", "e", "a", "t", "u", "r", "e">>, <<"U529F", "U80FD">>, <<"U7279", "U6027">>>>,
     bug |-> <<<<"b", "u", "g">>, <<"U932F", "U8AA4">>, <<"U554F", "U984C">>, <<"U4FEE", "U5FA9">>>>,
     task |-> <<<<"t", "a", "s", "k">>, <<"U4EFB", "U52D9">>, <<"U5DE5", "U4F5C", "U9805", "U76EE">>>>]

\* any(keyword in text for keyword in words)
AnyIn(words, text) == \E i \in DOMAIN words : Contains(text, words[i])

\* str.split(): the maximal runs of non-whitespace characters
RECURSIVE SplitWs(_)
SplitWs(s) ==
    IF s = << >> THEN << >>
    ELSE IF IsSpace(s[1]) THEN SplitWs(Tail(s))
    ELSE LET stops == {i \in 1..Len(s) : IsSpace(s[i])}
             n == IF stops = {} THEN Len(s) ELSE Min(stops) - 1
         IN  <<SubSeq(s, 1, n)>> \o SplitWs(SubSeq(s, n + 1, Len(s)))

\* str.split(sep) for a one-character separator
RECURSIVE SplitOn(_, _)
SplitOn(s, sep) ==
    LET stops == {i \in 1..Len(s) : s[i] = sep}
    IN  IF stops = {} THEN <<s>>
        ELSE <<SubSeq(s, 1, Min(stops) - 1)>>
               \o SplitOn(SubSeq(s, Min(stops) + 1, Len(s)), sep)

\* str.strip()
RECURSIVE Strip(_)
Strip(s) ==
    IF s = << >> THEN s
    ELSE IF IsSpace(s[1]) THEN Strip(Tail(s))
    ELSE IF IsSpace(s[Len(s)]) THEN Strip(SubSeq(s, 1, Len(s) - 1))
    ELSE s

SelectNonEmpty(ss) == SelectSeq(ss, LAMBDA x : x # << >>)
MapSeq(ss, F(_)) == [i \in DOMAIN ss |-> F(ss[i])]

\* the project pattern, searched in the original text, ignoring case:
\* P\s*(\w+) | project\s*(\w+), P the two characters U+5C08 U+6848
RECURSIVE WordRunEnd(_, _)
WordRunEnd(s, j) ==
    IF j <= Len(s) /\ IsWordChar(s[j]) THEN WordRunEnd(s, j + 1) ELSE j - 1
ProjectAfter(s, j) ==
    LET k == SkipSpaces(s, j)
    IN  IF k <= Len(s) /\ IsWordChar(s[k]) THEN Some(SubSeq(s, k, WordRunEnd(s, k)))
        ELSE None
\* low is s lower-cased: the marker words are matched ignoring case
ProjectAt(s, low, i) ==
    IF MatchAt(<<"U5C08", "U6848">>, low, i) /\ ProjectAfter(s, i + 2) # None
    THEN ProjectAfter(s, i + 2)
    ELSE IF MatchAt(<<"p", "r", "o", "j", "e", "c", "t">>, low, i)
    THEN ProjectAfter(s, i + 7)
    ELSE None
ProjectSearch(s) ==
    LET low == StrLower(s) IN FirstMatch(s, LAMBDA i : ProjectAt(s, low, i))


\* a dict: a function from the keys present to their values
EmptyMap == << >>
Put(m, k, v) == (k :> v) @@ m
Has(m, k) == k \in DOMAIN m
Get(m, k, default) == IF k \in DOMAIN m THEN m[k] ELSE default

\* QueryIntent declares intent_type, confidence and entities and nothing else;
\* attrs holds the attributes an object of an extending type adds to them
QueryIntent(intent_type, confidence, entities) ==
    [intent_type |-> intent_type, confidence |-> confidence,
     entities |-> entities, attrs |-> EmptyMap]

Max(a, b) == IF a >= b THEN a ELSE b

\* _get_llm_expanded_keywords.  llm: the completion capability is present;
\* langchain: the guarded import at the top of the module succeeded;
\* expansion: what chain.run does, [kind |-> "raise"] or [kind |-> "text", text]
_get_llm_expanded_keywords(text, llm, langchain, expansion) ==
    IF ~llm THEN Ret(<<text>>)
    ELSE IF ~langchain THEN Raise("NameError")
    ELSE IF expansion.kind = "raise" THEN Ret(<<text>>)
    ELSE Ret(SelectNonEmpty(MapSeq(SplitOn(expansion.text, ","), Strip)))

\* re.sub(r'[^w\s]', '', pattern).lower().split() over the pattern sources
TimePatternRemnants(now) ==
    UNION {Range(SplitWs(StrLower(
              SelectSeq(TimePatternSources(now)[i], LAMBDA c : c = "w" \/ IsSpace(c)))))
           : i \in DOMAIN TimePatternSources(now)}

IntentPatternWords ==
    UNION {{StrLower(intent_patterns[k][i]) : i \in DOMAIN intent_patterns[k]}
           : k \in DOMAIN intent_patterns}
excluded_keywords(now) == TimePatternRemnants(now) \cup IntentPatternWords

\* _basic_parse, block by block.  st is [t, c, e]: intent_type, confidence (in
\* tenths) and entities as the block before left them.
TimeStage(tr) ==
    IF tr.val # None
    THEN [t |-> "filter_by_date", c |-> 7,
          e |-> Put(EmptyMap, "time_range",
                    Some([kind |-> "tuple", start |-> tr.val[1].start,
                          end |-> tr.val[1].end]))]
    ELSE [t |-> "search_issues", c |-> 5, e |-> EmptyMap]

UserStage(st, query_lower) ==
    IF AnyIn(intent_patterns.user, query_lower)
    THEN [t |-> "get_user_issues", c |-> Max(st.c, 7),
          e |-> Put(st.e, "assignee", Some(<<"c", "u", "r", "r", "e", "n", "t", "U", "s", "e", "r", "(", ")">>))]
    ELSE st

StatusEntities(e, query_lower) ==
    IF Contains(query_lower, <<"U5B8C", "U6210">>) \/ Contains(query_lower, <<"d", "o", "n", "e">>)
    THEN Put(e, "status", <<<<"D", "o", "n", "e">>>>)
    ELSE IF Contains(query_lower, <<"U9032", "U884C", "U4E2D">>)
            \/ Contains(query_lower, <<"i", "n", " ", "p", "r", "o", "g", "r", "e", "s", "s">>)
    THEN Put(e, "status", <<<<"I", "n", " ", "P", "r", "o", "g", "r", "e", "s", "s">>>>)
    ELSE IF Contains(query_lower, <<"U5F85", "U8FA6">>) \/ Contains(query_lower, <<"t", "o", " ", "d", "o">>)
    THEN Put(e, "status", <<<<"T", "o", " ", "D", "o">>>>)
    ELSE e

StatusStage(st, query_lower) ==
    IF AnyIn(intent_patterns.status, query_lower)
    THEN [t |-> "filter_by_status", c |-> Max(st.c, 7),
          e |-> StatusEntities(st.e, query_lower)]
    ELSE st

ProjectStage(st, project_match) ==
    IF project_match # None
    THEN [t |-> "filter_by_project", c |-> Max(st.c, 8),
          e |-> Put(st.e, "project", Some(project_match[1]))]
    ELSE st

\* gen: the outcome of _get_llm_expanded_keywords, called for search_issues only
ExpansionStage(st, gen) ==
    IF st.t = "search_issues"
    THEN [t |-> st.t, c |-> Max(st.c, 8), e |-> Put(st.e, "keywords", gen.val)]
    ELSE st

all_keywords(query, excluded) ==
    SelectSeq(SplitWs(query), LAMBDA w : StrLower(w) \notin excluded /\ Len(w) > 1)

\* if not self.llm and not intent.entities.get('keywords')
TokenStage(st, query, now, llm) ==
    IF ~llm /\ Get(st.e, "keywords", << >>) = << >>
    THEN [st EXCEPT !.e = Put(@, "keywords",
                               Get(@, "keywords", << >>)
                                 \o all_keywords(query, excluded_keywords(now)))]
    ELSE st

IntentOf(st) == QueryIntent(st.t, st.c, st.e)

BasicIntent(tr, st, gen, query, now, llm) ==
    IF tr.raised THEN tr
    ELSE IF st.t = "search_issues" /\ gen.raised THEN gen
    ELSE Ret(IntentOf(TokenStage(ExpansionStage(st, gen), query, now, llm)))

BasicParseFrom(query, tr, now, llm, langchain, expansion) ==
    BasicIntent(tr,
                ProjectStage(StatusStage(UserStage(TimeStage(tr), StrLower(query)),
                                         StrLower(query)),
                             ProjectSearch(query)),
                _get_llm_expanded_keywords(query, llm, langchain, expansion),
                query, now, llm)

_basic_parse(query, now, llm, langchain, expansion) ==
    BasicParseFrom(query, _extract_time_range(query, now), now, llm, langchain, expansion)


(***************************************************************************)
(* Primary path: parse with the completion capability                      *)
(***************************************************************************)
\* the orders in which iterating a set of strings can yield its members
Perms(S) ==
    {p \in [1..Cardinality(S) -> S] : \A i, j \in 1..Cardinality(S) : i # j => p[i] # p[j]}

\* all_words of generate_flexible_keyword_conditions
KeywordWords(keywords) ==
    UNION {IF Contains(keywords[i], <<" ">>)
           THEN {w \in Range(SplitWs(keywords[i])) : Len(w) > 2}
           ELSE IF Len(keywords[i]) > 2 THEN {keywords[i]} ELSE {}
           : i \in DOMAIN keywords}

\* set([word, word.upper(), word.lower(), word.capitalize(), word.title()])
WordVariants(word) ==
    {word, StrUpper(word), StrLower(word), StrCapitalize(word), StrTitle(word)}

\* f"text ~ '{variant}'"
VariantCondition(variant) == <<"t", "e", "x", "t", " ", "~", " ", "'">> \o variant \o <<"'">>

\* f"({' OR '.join(variant_conditions)})", for every iteration order of the variants
WordGroups(word) ==
    {<<"(">> \o Join(<<" ", "O", "R", " ">>,
                      [i \in DOMAIN p |-> VariantCondition(p[i])]) \o <<")">>
     : p \in Perms(WordVariants(word))}

\* the lists generate_flexible_keyword_conditions can return: one group a word,
\* words and variants in the iteration order of their sets
generate_flexible_keyword_conditions(keywords) ==
    LET words == KeywordWords(keywords)
        groups == UNION {WordGroups(w) : w \in words}
        picks == {g \in [words -> groups] : \A w \in words : g[w] \in WordGroups(w)}
    IN  {[i \in DOMAIN p |-> g[p[i]]] : p \in Perms(words), g \in picks}

\* f"{year}-01-01" and f"{year}-12-31" around the year the request carries
YearDict(year) ==
    [kind |-> "dict", year |-> Some(year), start |-> Some(year \o sJan1),
     end |-> Some(year \o sDec31)]

\* user_conditions.get(flag): absent flags count as false
Flag(user_conditions, flag) == Get(user_conditions, flag, FALSE)

\* the list with the commented-out lines 426-428 in force
CommenterConditionList(user_conditions, jira_username) ==
    (IF Flag(user_conditions, "assignee")
     THEN <<<<"a", "s", "s", "i", "g", "n", "e", "e", " ", "=", " ", "'">> \o jira_username \o <<"'">>>> ELSE << >>)
    \o (IF Flag(user_conditions, "reporter")
        THEN <<<<"r", "e", "p", "o", "r", "t", "e", "r", " ", "=", " ", "'">> \o jira_username \o <<"'">>>> ELSE << >>)
    \o (IF Flag(user_conditions, "commenter")
        THEN <<<<"c", "o", "m", "m", "e", "n", "t", "e", "d", "B", "y", " ", "=", " ", "'">> \o jira_username \o <<"'">>>> ELSE << >>)

\* the user conditions parse appends; commenter is not consulted
UserConditionList(user_conditions, jira_username) ==
    (IF Flag(user_conditions, "assignee")
     THEN <<<<"a", "s", "s", "i", "g", "n", "e", "e", " ", "=", " ", "'">> \o jira_username \o <<"'">>>> ELSE << >>)
    \o (IF Flag(user_conditions, "reporter")
        THEN <<<<"r", "e", "p", "o", "r", "t", "e", "r", " ", "=", " ", "'">> \o jira_username \o <<"'">>>> ELSE << >>)

\* the intents the try block of parse can return for a response that is a
\* JSON object whose "keywords" is absent or an object
\* parsed.get("time") without the override of the request's year
ResponseTime(req, resp) == resp.time

\* parsed.get("time") after "if year: parsed['time'] = {...}"
PrimaryTime(req, resp) ==
    IF req.year # None /\ req.year[1] # << >>
    THEN Some(YearDict(req.year[1])) ELSE resp.time

PrimaryIntents(req, resp, jira_username) ==
    LET time == PrimaryTime(req, resp)
        main == IF resp.keywords.kind = "map" THEN resp.keywords.main ELSE << >>
        related == IF resp.keywords.kind = "map" THEN resp.keywords.related ELSE << >>
    IN  {QueryIntent("search_issues", 9,
            [main_keyword_conditions |-> m,
             related_keyword_conditions |-> r,
             user_conditions |-> UserConditionList(req.user_conditions, jira_username),
             time_range |-> time,
             project |-> resp.project])
         : m \in generate_flexible_keyword_conditions(main),
           r \in generate_flexible_keyword_conditions(related)}

\* the try block raises (and parse falls back) when the call fails, the content
\* is not JSON, the JSON is not an object, or "keywords" is null
PrimaryFails(resp) ==
    \/ resp.kind \in {"raise", "malformed", "nonobject"}
    \/ resp.kind = "object" /\ resp.keywords.kind = "null"

\* parse: the set of outcomes (a returned intent or an exception) for one request
parse(req, now, llm, langchain, jira_username, resp, expansion) ==
    IF ~llm \/ PrimaryFails(resp)
    THEN {_basic_parse(req.text, now, llm, langchain, expansion)}
    ELSE {Ret(i) : i \in PrimaryIntents(req, resp, jira_username)}


(***************************************************************************)
(* Query Compiler: JQLGenerator.generate_variations                        *)
(***************************************************************************)
sAnd == <<" ", "A", "N", "D", " ">>
sOr == <<" ", "O", "R", " ">>
sOrderBy == <<" ", "O", "R", "D", "E", "R", " ", "B", "Y", " ", "u", "p", "d", "a", "t", "e", "d", " ", "D", "E", "S", "C">>
basic_query == <<"p", "r", "o", "j", "e", "c", "t", " ", "I", "S", " ", "N", "O", "T", " ", "E", "M", "P", "T", "Y", " ", "O", "R", "D", "E", "R", " ", "B", "Y", " ", "u", "p", "d", "a", "t", "e", "d", " ", "D", "E", "S", "C">>

\* 'project' in entities and entities['project']
ProjectClause(entities) ==
    IF Has(entities, "project") /\ Truthy(entities.project)
    THEN <<<<"p", "r", "o", "j", "e", "c", "t", " ", "=", " ", "'">> \o entities.project[1] \o <<"'">>>>
    ELSE << >>

\* time_range and time_range.get("start") and time_range.get("end");
\* a tuple has no get: AttributeError
TimeRaises(entities) ==
    LET time_range == Get(entities, "time_range", None)
    IN  time_range # None /\ time_range[1].kind = "tuple"

TimeClause(entities) ==
    LET time_range == Get(entities, "time_range", None)
    IN  IF time_range # None /\ time_range[1].kind = "dict"
           /\ Truthy(time_range[1].start) /\ Truthy(time_range[1].end)
        THEN <<<<"c", "r", "e", "a", "t", "e", "d", " ", ">", "=", " ", "'">> \o time_range[1].start[1]
                 \o <<"'", " ", "A", "N", "D", " ", "c", "r", "e", "a", "t", "e", "d", " ", "<", "=", " ", "'">> \o time_range[1].end[1] \o <<"'">>>>
        ELSE << >>

UserClause(entities) ==
    LET user_conditions == Get(entities, "user_conditions", << >>)
    IN  IF user_conditions = << >> THEN << >>
        ELSE IF Len(user_conditions) = 1 THEN <<user_conditions[1]>>
        ELSE <<<<"(">> \o Join(sOr, user_conditions) \o <<")">>>>

\* keyword_conditions: main extended by related, in a list of its own
KeywordConditions(entities) ==
    Get(entities, "main_keyword_conditions", << >>)
        \o Get(entities, "related_keyword_conditions", << >>)

KeywordClause(entities) ==
    IF KeywordConditions(entities) = << >> THEN << >>
    ELSE <<<<"(">> \o Join(sOr, KeywordConditions(entities)) \o <<")">>>>

\* intent.is_exclusion, and intent.excluded_keywords when it is true, are read
\* as attributes of the intent object: AttributeError when it has none
ExclusionRaises(intent) ==
    \/ ~Has(intent.attrs, "is_exclusion")
    \/ intent.attrs.is_exclusion /\ ~Has(intent.attrs, "excluded_keywords")

\* the keyword clause ahead of the other clauses
KeywordsFirstConditions(intent_) ==
    (IF intent_.attrs.is_exclusion THEN << >> ELSE KeywordClause(intent_.entities))
        \o ProjectClause(intent_.entities) \o TimeClause(intent_.entities)
        \o UserClause(intent_.entities)

base_conditions(intent) ==
    ProjectClause(intent.entities) \o TimeClause(intent.entities)
        \o UserClause(intent.entities)
        \o (IF intent.attrs.is_exclusion THEN << >> ELSE KeywordClause(intent.entities))

\* what an in-place main.extend(related) would leave in the entities
EntitiesWithMainExtended(entities) ==
    IF Has(entities, "main_keyword_conditions")
    THEN [entities EXCEPT !.main_keyword_conditions =
              @ \o Get(entities, "related_keyword_conditions", << >>)]
    ELSE entities

\* what the call leaves in intent.entities
EntitiesAfterCompile(entities) == entities

generate_variations(intent) ==
    IF TimeRaises(intent.entities) \/ ExclusionRaises(intent)
    THEN Raise("AttributeError")
    ELSE IF base_conditions(intent) # << >>
    THEN Ret(<<Join(sAnd, base_conditions(intent)) \o sOrderBy>>)
    ELSE Ret(<<basic_query>>)


(***************************************************************************)
(* Bounds and inputs                                                       *)
(***************************************************************************)
\* a query text is the concatenation of at most MaxPhrases phrases
MaxPhrases == 2
\* a caller-built intent carries at most MaxConds conditions of each kind
MaxConds == 2

Phrases ==
    {<<"U6211", " ", "2", "0", "2", "5", " ", "Q", "1", " ", "U7684", "U5DE5", "U4F5C">>, <<"2", "0", "2", "5", " ", "Q", "4">>, <<"2", "0", "1", "9", " ", "Q", "2">>, <<"2", "0", "1", "9", "U5E74", "3", "U6708">>, <<"2", "0", "1", "9">>,
     <<" ", "l", "o", "g", "i", "n", " ", "b", "u", "g">>}

RECURSIVE TextsUpTo(_)
TextsUpTo(n) ==
    IF n = 0 THEN {<< >>}
    ELSE TextsUpTo(n - 1) \cup {t \o p : t \in TextsUpTo(n - 1), p \in Phrases}
Texts == TextsUpTo(MaxPhrases)

\* evaluation instants (datetime.now())
EvalDates == {Date(2025, 6, 15), Date(2026, 1, 5)}

\* JIRA_USERNAME
Usernames == {<<"b", "o", "b">>}

Years == {None, Some(<<"2", "0", "2", "5">>), Some(<<"2", "0", "1", "9">>)}
UserConditionMaps ==
    {EmptyMap,
     [assignee |-> TRUE],
     [assignee |-> TRUE, reporter |-> TRUE, commenter |-> TRUE],
     [commenter |-> TRUE]}

\* a request: a plain string, or {text, year?, user_conditions?}
PlainRequest(text) ==
    [isdict |-> FALSE, text |-> text, year |-> None, user_conditions |-> EmptyMap]
DictRequest(text, year, uc) ==
    [isdict |-> TRUE, text |-> text, year |-> year, user_conditions |-> uc]
Requests ==
    {PlainRequest(t) : t \in Texts}
      \cup {DictRequest(t, y, uc) : t \in Texts, y \in Years, uc \in UserConditionMaps}

\* what the completion capability does when parse calls it
NoResponse == [kind |-> "none"]
KeywordsAbsent == [kind |-> "absent"]
KeywordsNull == [kind |-> "null"]
KeywordsMap(main, related) == [kind |-> "map", main |-> main, related |-> related]
ObjectResponse(keywords, project, time) ==
    [kind |-> "object", keywords |-> keywords, project |-> project, time |-> time]
TimeDict(year, start, end) ==
    [kind |-> "dict", year |-> year, start |-> start, end |-> end]
Responses ==
    {[kind |-> "raise"], [kind |-> "malformed"], [kind |-> "nonobject"],
     ObjectResponse(KeywordsNull, None, None),
     ObjectResponse(KeywordsAbsent, None, None),
     ObjectResponse(KeywordsMap(<<<<"K", "F", "C">>>>, <<<<"U6392", "U884C", "U699C">>>>), Some(<<"K", "F", "C">>),
                    Some(TimeDict(Some(<<"2", "0", "2", "5">>), Some(<<"2", "0", "2", "5", "-", "0", "1", "-", "0", "1">>),
                                  Some(<<"2", "0", "2", "5", "-", "1", "2", "-", "3", "1">>)))),
     ObjectResponse(KeywordsMap(<<<<"U6392", "'", "U699C">>>>, << >>), Some(<<"O", "'", "B">>),
                    Some(TimeDict(None, Some(<<"2", "0", "2", "5", "-", "0", "1", "-", "0", "1">>), None)))}

\* what chain.run does inside _get_llm_expanded_keywords
NoExpansion == [kind |-> "none"]
Expansions == {[kind |-> "raise"], [kind |-> "text", text |-> <<"l", "o", "g", "i", "n", ",", " ", "a", "u", "t", "h">>]}

(***************************************************************************)
(* State                                                                   *)
(***************************************************************************)
VARIABLES
    now,            \* datetime.now() of the process
    llm,            \* parser.llm is set (the completion capability is present)
    langchain,      \* the guarded langchain import succeeded
    jira_username,  \* parser.jira_username
    pc,             \* position of the request in process_query
    request,        \* the request being processed
    response,       \* what the completion capability answered to parse
    parsed,         \* outcome of parser.parse(request)
    intent,         \* the intent object handed to the compiler
    jql,            \* outcome of the first generate_variations(intent)
    jql_again,      \* outcome of a second generate_variations(intent)
    time_range,     \* outcome of _extract_time_range on a phrase
    jira_client,    \* self.jira_client is set (the backend client was constructed)
    all_results,    \* the records of the executed queries, in execution order
    unique_results, \* all_results without repeated identifiers
    sorted_results, \* unique_results after smart_sort
    filtered_results, \* the list the relevance pass leaves
    payload,        \* what process_query returns
    backend,        \* what the backend does with each compiled query of the request
    filter_result,  \* what the completion capability answers in the relevance pass
    agent_result    \* the outcome of NaturalLanguageAgent.process_query

vars == <<now, llm, langchain, jira_username, pc, request, response, parsed, intent, jql, jql_again,
          time_range, jira_client, all_results, unique_results, sorted_results,
          filtered_results, payload, backend, filter_result, agent_result>>
\* the lists of the reconciler and the returned payload
reconciled == <<all_results, unique_results, sorted_results, filtered_results, payload,
                backend, filter_result, agent_result>>
\* what the parse and compile steps do not touch
rest == <<time_range, jira_client, reconciled>>
env == <<now, llm, langchain, jira_username>>
NoPayload == [returned |-> FALSE]
NoFilterResult == [kind |-> "none"]

NoRequest == [isdict |-> FALSE, text |-> << >>, year |-> None, user_conditions |-> EmptyMap]
NoOutcome == [raised |-> FALSE, err |-> "none", val |-> None]
NoIntent == [intent_type |-> "none", confidence |-> 0, entities |-> EmptyMap,
             attrs |-> EmptyMap]

Init ==
    /\ now \in EvalDates
    /\ llm \in BOOLEAN
    /\ langchain \in (IF llm THEN BOOLEAN ELSE {TRUE})  \* consulted only with llm
    /\ jira_username \in Usernames
    /\ pc = "idle"
    /\ request = NoRequest
    /\ response = NoResponse
    /\ parsed = NoOutcome
    /\ intent = NoIntent
    /\ jql = NoOutcome
    /\ jql_again = NoOutcome
    /\ time_range = NoOutcome
    /\ jira_client = TRUE
    /\ all_results = << >>
    /\ unique_results = << >>
    /\ sorted_results = << >>
    /\ filtered_results = << >>
    /\ payload = NoPayload
    /\ backend = << >>
    /\ filter_result = NoFilterResult
    /\ agent_result = NoOutcome

\* process_query, step 1: intent = self.parser.parse(query)
Parse ==
    /\ pc = "idle"
    /\ \E req \in Requests :
       \E resp \in (IF llm THEN Responses ELSE {NoResponse}) :
       \E expansion \in (IF llm THEN Expansions ELSE {NoExpansion}) :
       \E r \in parse(req, now, llm, langchain, jira_username, resp, expansion) :
          /\ request' = req
          /\ response' = resp
          /\ parsed' = r
          /\ intent' = IF r.raised THEN NoIntent ELSE r.val
          /\ pc' = IF r.raised THEN "raised" ELSE "parsed"
    /\ UNCHANGED <<env, jql, jql_again, rest>>

\* process_query, step 2: jql_queries = self.jql_generator.generate_variations(intent)
Generate ==
    /\ pc = "parsed"
    /\ jql' = generate_variations(intent)
    /\ intent' = [intent EXCEPT !.entities = EntitiesAfterCompile(@)]
    /\ pc' = "compiled"
    /\ UNCHANGED <<env, response, request, parsed, jql_again, rest>>

\* a second call on the same intent object
GenerateAgain ==
    /\ pc = "compiled"
    /\ jql_again' = generate_variations(intent)
    /\ intent' = [intent EXCEPT !.entities = EntitiesAfterCompile(@)]
    /\ pc' = "recompiled"
    /\ UNCHANGED <<env, response, request, parsed, jql, rest>>

\* the request is over (a result was returned or an exception left process_query)
NextRequest ==
    /\ pc \in {"raised", "compiled", "recompiled", "resolved", "returned", "answered",
             "extracted", "month_resolved", "expanded"}
    /\ pc' = "idle"
    /\ request' = NoRequest
    /\ response' = NoResponse
    /\ parsed' = NoOutcome
    /\ intent' = NoIntent
    /\ jql' = NoOutcome
    /\ jql_again' = NoOutcome
    /\ time_range' = NoOutcome
    /\ all_results' = << >>
    /\ unique_results' = << >>
    /\ sorted_results' = << >>
    /\ filtered_results' = << >>
    /\ payload' = NoPayload
    /\ backend' = << >>
    /\ filter_result' = NoFilterResult
    /\ agent_result' = NoOutcome
    /\ UNCHANGED <<env, jira_client>>

\* the pipeline of process_query: extraction, then compilation
Next == Parse \/ Generate \/ NextRequest

Spec == Init /\ [][Next]_vars

(***************************************************************************)
(* The compiler on its own: generate_variations handed an intent object    *)
(* by its caller.  The object is a QueryIntent (attrs empty) or an object   *)
(* of a type that extends QueryIntent with the two attributes the compiler  *)
(* reads, is_exclusion and excluded_keywords.                               *)
(***************************************************************************)
RECURSIVE SeqsUpTo(_, _)
SeqsUpTo(S, n) ==
    IF n = 0 THEN {<< >>}
    ELSE SeqsUpTo(S, n - 1) \cup {Append(q, x) : q \in SeqsUpTo(S, n - 1), x \in S}

UserConditionPool == {UserConditionList([assignee |-> TRUE], <<"b", "o", "b">>)[1],
                      UserConditionList([reporter |-> TRUE], <<"b", "o", "b">>)[1]}
KeywordConditionPool ==
    generate_flexible_keyword_conditions(<<<<"U6392", "U884C", "U699C">>>>)
      \cup generate_flexible_keyword_conditions(<<<<"U6392", "'", "U699C">>>>)
RelatedConditionPool == generate_flexible_keyword_conditions(<<<<"1", "2", "3">>>>)

ProjectValues == {None, Some(<<"K", "F", "C">>), Some(<<"O", "'", "B">>)}
TimeRangeValues ==
    {None,
     Some(TimeDict(None, Some(<<"2", "0", "2", "5", "-", "0", "1", "-", "0", "1">>),
                   Some(<<"2", "0", "2", "5", "-", "0", "3", "-", "3", "1">>))),
     Some(TimeDict(None, Some(<<"2", "0", "2", "5", "-", "0", "1", "-", "0", "1">>), None)),
     Some([kind |-> "tuple", start |-> <<"2", "0", "2", "5", "-", "0", "1", "-", "0", "1">>,
           end |-> <<"2", "0", "2", "5", "-", "0", "3", "-", "3", "1">>])}

\* entities with every subset of the five keys the compiler consults, with or
\* without an "is_exclusion" entry (which the compiler does not consult)
OptionalKey(k, values) == {EmptyMap} \cup {Put(EmptyMap, k, v) : v \in values}
CallerEntities ==
    {p @@ t @@ u @@ m @@ r @@ x :
        p \in OptionalKey("project", ProjectValues),
        t \in OptionalKey("time_range", TimeRangeValues),
        u \in OptionalKey("user_conditions", SeqsUpTo(UserConditionPool, MaxConds)),
        m \in OptionalKey("main_keyword_conditions",
                          SeqsUpTo(KeywordConditionPool, MaxConds)),
        r \in OptionalKey("related_keyword_conditions",
                          SeqsUpTo(RelatedConditionPool, 1)),
        x \in OptionalKey("is_exclusion", {TRUE})}
CallerAttrs ==
    {EmptyMap, [is_exclusion |-> TRUE], [is_exclusion |-> FALSE],
     [is_exclusion |-> TRUE, excluded_keywords |-> << >>]}

\* a caller hands the compiler an intent object it built
CallerIntent ==
    /\ pc = "idle"
    /\ \E e \in CallerEntities, a \in CallerAttrs :
          intent' = [QueryIntent("search_issues", 5, e) EXCEPT !.attrs = a]
    /\ pc' = "parsed"
    /\ UNCHANGED <<env, response, request, parsed, jql, jql_again, rest>>

InitCompile ==
    /\ now = Date(2025, 6, 15)
    /\ llm = FALSE
    /\ langchain = TRUE
    /\ jira_username = <<"b", "o", "b">>
    /\ pc = "idle"
    /\ request = NoRequest
    /\ response = NoResponse
    /\ parsed = NoOutcome
    /\ intent = NoIntent
    /\ jql = NoOutcome
    /\ jql_again = NoOutcome
    /\ time_range = NoOutcome
    /\ jira_client = TRUE
    /\ all_results = << >>
    /\ unique_results = << >>
    /\ sorted_results = << >>
    /\ filtered_results = << >>
    /\ payload = NoPayload
    /\ backend = << >>
    /\ filter_result = NoFilterResult
    /\ agent_result = NoOutcome

NextCompile == CallerIntent \/ Generate \/ GenerateAgain \/ NextRequest

SpecCompile == InitCompile /\ [][NextCompile]_vars



(***************************************************************************)
(* The Time Resolver on its own: _extract_time_range on a relative-time    *)
(* phrase, at evaluation dates around the turn of a year and of a month.   *)
(***************************************************************************)
\* the evaluation dates are the MaxDays days after the start of a window
MaxDays == 14
WindowStarts == {Date(2024, 12, 22), Date(2025, 12, 22), Date(2024, 2, 20), Date(2025, 3, 24)}
TimeDates == {AddDays(d, k) : d \in WindowStarts, k \in 0..MaxDays}

RelativePhrases ==
    { <<"U4ECA", "U5929">>, <<"U6628", "U5929">>, <<"U9019", "U9031">>, <<"U672C", "U9031">>, <<"U4E0A", "U9031">>, <<"U9019", "U500B", "U6708">>, <<"U672C", "U6708">>, <<"U4E0A", "U500B", "U6708">>,
      <<"U4ECA", "U5E74">>, <<"U672C", "U5E74">>, <<"U53BB", "U5E74">> }

InitTime ==
    /\ now \in TimeDates
    /\ llm = FALSE
    /\ langchain = TRUE
    /\ jira_username = <<"b", "o", "b">>
    /\ pc = "idle"
    /\ request = NoRequest
    /\ response = NoResponse
    /\ parsed = NoOutcome
    /\ intent = NoIntent
    /\ jql = NoOutcome
    /\ jql_again = NoOutcome
    /\ time_range = NoOutcome
    /\ jira_client = TRUE
    /\ all_results = << >>
    /\ unique_results = << >>
    /\ sorted_results = << >>
    /\ filtered_results = << >>
    /\ payload = NoPayload
    /\ backend = << >>
    /\ filter_result = NoFilterResult
    /\ agent_result = NoOutcome

\* time_range = self._extract_time_range(query) for a relative-time phrase
Resolve ==
    /\ pc = "idle"
    /\ \E phrase \in RelativePhrases :
          /\ request' = PlainRequest(phrase)
          /\ time_range' = _extract_time_range(phrase, now)
    /\ pc' = "resolved"
    /\ UNCHANGED <<env, response, parsed, intent, jql, jql_again, jira_client, reconciled>>

\* requests that name a month, with its year or bare
YearMonthText(y, m) == IntToStr(y) \o <<"U5E74">> \o IntToStr(m) \o <<"U6708">>
BareMonthText(m) == IntToStr(m) \o <<"U6708">>
YearMonthTexts ==
    {YearMonthText(y, m) : y \in {now.y, now.y - 1}, m \in 1..12}
      \cup { <<"U6211", " ">> \o YearMonthText(y, m) \o <<"U7684", "U4EFB", "U52D9">> : y \in {now.y, now.y - 1}, m \in 1..12}
BareMonthTexts ==
    {BareMonthText(m) : m \in 1..12} \cup {BareMonthText(m) \o <<"U7684", "U4EFB", "U52D9">> : m \in 1..12}

\* parse without a completion capability on a request that names a month
ResolveMonth ==
    /\ pc = "idle"
    /\ ~llm
    /\ \E text \in YearMonthTexts \cup BareMonthTexts :
       \E r \in parse(PlainRequest(text), now, llm, langchain, jira_username, NoResponse,
                      NoExpansion) :
          /\ request' = PlainRequest(text)
          /\ parsed' = r
          /\ intent' = IF r.raised THEN NoIntent ELSE r.val
    /\ pc' = "month_resolved"
    /\ UNCHANGED <<env, response, jql, jql_again, rest>>

NextTime == Resolve \/ ResolveMonth \/ NextRequest

SpecTime == InitTime /\ [][NextTime]_vars

(***************************************************************************)
(* Result Reconciler: process_query after the compiler has returned        *)
(***************************************************************************)
\* an IssueRecord, with the fields the reconciler reads
IssueRecord(key, created, updated, comment_count, processing_days, duration_days) ==
    [key |-> key, created |-> created, updated |-> updated,
     comment_count |-> comment_count, processing_days |-> processing_days,
     duration_days |-> duration_days]

\* records of the backend; the issue A is seen in two states
IssueA == IssueRecord(<<"A">>, <<"2", "0", "2", "5", "-", "0", "1", "-", "0", "3">>, <<"2", "0", "2", "5", "-", "0", "2", "-", "0", "1">>, 0, Some(30), None)
IssueALater == IssueRecord(<<"A">>, <<"2", "0", "2", "5", "-", "0", "1", "-", "0", "5">>, <<"2", "0", "2", "5", "-", "0", "2", "-", "0", "5">>, 1, Some(5), None)
IssueB == IssueRecord(<<"B">>, <<"2", "0", "2", "5", "-", "0", "1", "-", "0", "1">>, <<"2", "0", "2", "5", "-", "0", "2", "-", "0", "3">>, 5, None, Some(100))
IssueC == IssueRecord(<<"C">>, <<"2", "0", "2", "5", "-", "0", "1", "-", "0", "2">>, <<"2", "0", "2", "5", "-", "0", "2", "-", "0", "2">>, 5, None, None)
RecordPool == {IssueA, IssueALater, IssueB, IssueC}
\* pages a query can return, each with distinct identifiers
Pages == {<<IssueA, IssueB, IssueC>>, <<IssueC, IssueALater, IssueB>>, <<IssueB, IssueA, IssueC>>}

\* a query returns the first records of a page, at most MaxRecords, or one long page
MaxRecords == 2
\* the long page has PageSize records, more than process_query returns
PageSize == 21
PageRecord(i) ==
    IssueRecord(<<"K">> \o IntToStr(i), <<"2", "0", "2", "5", "-", "0", "3", "-">> \o Pad2(i), <<"2", "0", "2", "5", "-", "0", "4", "-">> \o Pad2(PageSize + 1 - i),
                i % 4,
                IF i % 3 = 0 THEN Some(i) ELSE None,
                IF i % 3 = 1 THEN Some(10 * i) ELSE None)
LongPage == [i \in 1..PageSize |-> PageRecord(i)]
ResultLists ==
    {SubSeq(p, 1, IF n < Len(p) THEN n ELSE Len(p)) : p \in Pages, n \in 0..MaxRecords}
      \cup {LongPage}

\* what the backend does with one query: validate_jql is false, or it is true
\* and search_issues fails (and returns []) or returns records
BackendAnswer(valid, fails, records) == [valid |-> valid, fails |-> fails, records |-> records]
BackendAnswers ==
    {BackendAnswer(FALSE, FALSE, << >>), BackendAnswer(TRUE, TRUE, << >>)}
      \cup {BackendAnswer(TRUE, FALSE, l) : l \in ResultLists}
\* the answers to a second query of the same request
SecondAnswers ==
    {BackendAnswer(FALSE, FALSE, << >>), BackendAnswer(TRUE, TRUE, << >>),
     BackendAnswer(TRUE, FALSE, << >>)}
      \cup {BackendAnswer(TRUE, FALSE, <<r>>) : r \in RecordPool \ {IssueA}}

\* JiraClient.validate_jql and JiraClient.search_issues
validate_jql(answer) == answer.valid
search_issues(answer) == IF answer.fails THEN << >> ELSE answer.records

\* the loop over jql_queries from its k-th query on
RECURSIVE ExecuteFrom(_, _, _)
ExecuteFrom(queries, answers, k) ==
    IF k > Len(queries) THEN << >>
    ELSE (IF validate_jql(answers[k]) THEN search_issues(answers[k]) ELSE << >>)
           \o ExecuteFrom(queries, answers, k + 1)

\* all_results of process_query
ExecuteAll(client, queries, answers) ==
    IF client THEN ExecuteFrom(queries, answers, 1) ELSE << >>

\* a deduplication that keeps the last record seen for a key
RECURSIVE LastSeenFrom(_, _)
LastSeenFrom(results, k) ==
    IF k > Len(results) THEN << >>
    ELSE IF \E j \in (k + 1)..Len(results) : results[j].key = results[k].key
    THEN LastSeenFrom(results, k + 1)
    ELSE <<results[k]>> \o LastSeenFrom(results, k + 1)
LastSeenDeduplicated(results) == LastSeenFrom(results, 1)

\* the deduplication loop: seen_keys and unique_results after the first k records
RECURSIVE DedupeFrom(_, _, _, _)
DedupeFrom(results, k, seen_keys, unique) ==
    IF k > Len(results) THEN unique
    ELSE IF results[k].key \notin seen_keys
    THEN DedupeFrom(results, k + 1, seen_keys \cup {results[k].key}, Append(unique, results[k]))
    ELSE DedupeFrom(results, k + 1, seen_keys, unique)
Deduplicated(results) == DedupeFrom(results, 1, {}, << >>)

\* ord() of the characters of a timestamp
Ord(c) ==
    IF c \in DigitSet THEN 47 + IndexOf(c, DigitChars)
    ELSE IF c \in UpperSet THEN 64 + IndexOf(c, UpperLetters)
    ELSE IF c \in LowerSet THEN 96 + IndexOf(c, LowerLetters)
    ELSE IF c = "-" THEN 45 ELSE 32
Ords(s) == [i \in DOMAIN s |-> Ord(s[i])]

\* a < b for two tuples of numbers, as Python compares tuples and strings
RECURSIVE TupleLess(_, _)
TupleLess(a, b) ==
    IF b = << >> THEN FALSE
    ELSE IF a = << >> THEN TRUE
    ELSE IF a[1] # b[1] THEN a[1] < b[1]
    ELSE TupleLess(Tail(a), Tail(b))

\* sorted(results, key=..., reverse=True): the keys are given per record;
\* records with equal keys keep their order
RECURSIVE InsertDescending(_, _)
InsertDescending(list, e) ==
    IF list = << >> THEN <<e>>
    ELSE IF TupleLess(Head(list).sort_key, e.sort_key) THEN <<e>> \o list
    ELSE <<Head(list)>> \o InsertDescending(Tail(list), e)
RECURSIVE SortedFrom(_, _, _, _)
SortedFrom(results, keys, k, acc) ==
    IF k > Len(results) THEN [i \in DOMAIN acc |-> acc[i].item]
    ELSE SortedFrom(results, keys, k + 1,
                    InsertDescending(acc, [item |-> results[k], sort_key |-> keys[k]]))
SortedDescending(results, keys) == SortedFrom(results, keys, 1, << >>)

\* a strategy choice that looks for the comment phrases before the recency phrases
CommentsFirstStrategy(query_text) ==
    IF AnyIn(<< <<"U6700", "U4E45">>, <<"U8655", "U7406", "U6700", "U4E45">>, <<"U6301", "U7E8C", "U6700", "U4E45">>, <<"U6700", "U9577", "U6642", "U9593">>, <<"U6700", "U9577">> >>, StrLower(query_text))
    THEN "processing"
    ELSE IF AnyIn(<< <<"U7559", "U8A00", "U6578">>, <<"U8A55", "U8AD6", "U6578">>, <<"U8A0E", "U8AD6">>, <<"U7559", "U8A00">>, <<"U8A55", "U8AD6">> >>, StrLower(query_text))
    THEN "comments"
    ELSE IF AnyIn(<< <<"U6700", "U65B0">>, <<"U6700", "U8FD1">>, <<"U65B0", "U5EFA">> >>, StrLower(query_text))
    THEN "created"
    ELSE "updated"

\* the branch smart_sort takes
SortStrategy(query_text) ==
    IF AnyIn(<< <<"U6700", "U4E45">>, <<"U8655", "U7406", "U6700", "U4E45">>, <<"U6301", "U7E8C", "U6700", "U4E45">>, <<"U6700", "U9577", "U6642", "U9593">>, <<"U6700", "U9577">> >>, StrLower(query_text))
    THEN "processing"
    ELSE IF AnyIn(<< <<"U6700", "U65B0">>, <<"U6700", "U8FD1">>, <<"U65B0", "U5EFA">> >>, StrLower(query_text))
    THEN "created"
    ELSE IF AnyIn(<< <<"U7559", "U8A00", "U6578">>, <<"U8A55", "U8AD6", "U6578">>, <<"U8A0E", "U8AD6">>, <<"U7559", "U8A00">>, <<"U8A55", "U8AD6">> >>, StrLower(query_text))
    THEN "comments"
    ELSE "updated"

\* a key that compares the day counts alone
DaysOnlyKey(x) ==
    IF x.processing_days # None THEN <<x.processing_days[1]>>
    ELSE IF x.duration_days # None THEN <<x.duration_days[1]>>
    ELSE <<-1>>

\* sort_key of the first branch
sort_key(x) ==
    IF x.processing_days # None THEN <<1, x.processing_days[1]>>
    ELSE IF x.duration_days # None THEN <<0, x.duration_days[1]>>
    ELSE <<-1, 0>>

\* the key of each branch
KeyFor(strategy, x) ==
    CASE strategy = "processing" -> sort_key(x)
      [] strategy = "created" -> Ords(x.created)
      [] strategy = "comments" -> <<x.comment_count>>
      [] OTHER -> Ords(x.updated)

smart_sort(results, query_text) ==
    SortedDescending(results,
                     [i \in DOMAIN results |-> KeyFor(SortStrategy(query_text), results[i])])

\* relevance_score of a task of the response, in tenths: a number, a string,
\* or no such member
Score(tenths) == [type |-> "number", tenths |-> tenths]
StringScore == [type |-> "string", tenths |-> 0]
NoScore == [type |-> "absent", tenths |-> 0]
\* one member of relevant_tasks; key is None when the task has no "key"
Task(key, score) == [key |-> key, relevance_score |-> score]

\* the answer of the completion capability to the filter prompt
CallRaises == [kind |-> "raises"]
NoContent == [kind |-> "no_content"]
\* a content that json.loads rejects; a fence on one line leaves '' behind
NotJson == [kind |-> "text"]
FencedOnOneLine == [kind |-> "fenced_one_line"]
\* a content that is JSON, bare or in a fence of its own lines
JsonNull == [kind |-> "json", shape |-> "null"]
JsonList == [kind |-> "json", shape |-> "list"]
ObjectWithoutTasks == [kind |-> "json", shape |-> "object", has_tasks |-> FALSE]
TasksString == [kind |-> "json", shape |-> "object", has_tasks |-> TRUE, tasks_are |-> "string"]
TaskList(tasks) ==
    [kind |-> "json", shape |-> "object", has_tasks |-> TRUE, tasks_are |-> "list",
     relevant_tasks |-> tasks]
FencedTaskList(tasks) ==
    [kind |-> "fenced_json", shape |-> "object", has_tasks |-> TRUE, tasks_are |-> "list",
     relevant_tasks |-> tasks]

\* the 0.3 of the filter, in tenths
RelevanceThreshold == 3
ScoredTaskLists ==
    {<<Task(Some(<<"A">>), Score(a)), Task(Some(<<"B">>), Score(b))>> :
         a \in {RelevanceThreshold, 5}, b \in {5, 9}}
      \cup {<<Task(Some(<<"C">>), Score(5)), Task(Some(<<"A">>), Score(a)), Task(Some(<<"B">>), Score(5))>> :
               a \in {5, 9}}
      \cup {<<Task(Some(<<"K", "2">>), Score(5)), Task(Some(<<"K", "5">>), Score(9)), Task(Some(<<"K", "7">>), Score(5)),
              Task(Some(<<"K", "9">>), Score(RelevanceThreshold)),
              Task(Some(<<"K", "1", "1">>), Score(RelevanceThreshold - 1))>>,
            <<Task(Some(<<"Z">>), Score(9))>>}
FilterResults ==
    {CallRaises, NoContent, NotJson, FencedOnOneLine, JsonNull, JsonList, ObjectWithoutTasks,
     TasksString, TaskList(<< >>),
     TaskList(<<Task(Some(<<"A">>), NoScore)>>),
     TaskList(<<Task(None, Score(9))>>),
     TaskList(<<Task(None, NoScore), Task(Some(<<"A">>), Score(9))>>),
     TaskList(<<Task(Some(<<"A">>), StringScore)>>),
     FencedTaskList(<<Task(Some(<<"B">>), Score(9)), Task(Some(<<"A">>), Score(9))>>)}
      \cup {TaskList(tasks) : tasks \in ScoredTaskLists}

\* the condition of the filter with >= for >
AtLeastThreshold(score) == score >= RelevanceThreshold

\* task_relevance.get(key, 0) > 0.3
AboveThreshold(score) == score > RelevanceThreshold

\* the dict comprehension: tasks whose score is not None, by key; a later task
\* replaces an earlier one of the same key
RECURSIVE TaskRelevanceFrom(_, _, _)
TaskRelevanceFrom(tasks, k, d) ==
    IF k > Len(tasks) THEN Ret(d)
    ELSE IF tasks[k].relevance_score.type = "absent" THEN TaskRelevanceFrom(tasks, k + 1, d)
    ELSE IF tasks[k].key = None THEN Raise("KeyError")
    ELSE TaskRelevanceFrom(tasks, k + 1,
                           [x \in (DOMAIN d) \cup {tasks[k].key[1]} |->
                               IF x = tasks[k].key[1] THEN tasks[k].relevance_score ELSE d[x]])
task_relevance(tasks) == TaskRelevanceFrom(tasks, 1, << >>)

\* the list comprehension over sorted_results
Relevant(results, relevance) ==
    SelectSeq(results, LAMBDA r : r.key \in DOMAIN relevance
                                  /\ AboveThreshold(relevance[r.key].tenths))
\* comparing a string with 0.3 raises TypeError, in the list comprehension
\* or in the loop that prints the tasks afterwards
ComparisonRaises(tasks) ==
    \E k \in 1..Len(tasks) : tasks[k].relevance_score.type = "string"

\* the branch "if relevant_tasks:" with a list of tasks
FilteredByTasks(results, tasks) ==
    IF task_relevance(tasks).raised \/ ComparisonRaises(tasks)
    THEN Raise("Exception")
    ELSE Ret(SortedDescending(
                 Relevant(results, task_relevance(tasks).val),
                 [i \in DOMAIN Relevant(results, task_relevance(tasks).val) |->
                     <<task_relevance(tasks).val[Relevant(results, task_relevance(tasks).val)[i].key].tenths>>]))

\* the body of the outer try with the answer of the capability
FilteredInTry(results, answer) ==
    IF answer.kind \in {"raises", "no_content"} THEN Ret(results)
    ELSE IF answer.kind \in {"text", "fenced_one_line"} THEN Ret(results)  \* JSONDecodeError
    ELSE IF answer.shape # "object" THEN Raise("AttributeError")
    ELSE IF ~answer.has_tasks THEN Ret(results)
    ELSE IF answer.tasks_are = "string" THEN Raise("AttributeError")
    ELSE IF answer.relevant_tasks = << >> THEN Ret(results)
    ELSE FilteredByTasks(results, answer.relevant_tasks)

\* step 5 of process_query
relevance_pass(results, has_llm, answer) ==
    IF results = << >> \/ ~has_llm THEN results
    ELSE IF FilteredInTry(results, answer).raised THEN results
    ELSE FilteredInTry(results, answer).val

\* NaturalLanguageAgent.process_query after generate_variations: every record
\* search_issues returns is a dict, issue.key raises AttributeError inside the
\* try of the loop, and no issue is collected
AgentAfterCompile(queries) ==
    IF queries.raised THEN queries
    ELSE Ret([issues |-> << >>, jql_queries |-> queries.val])
AgentAfterParse(r) ==
    IF r.raised THEN r ELSE AgentAfterCompile(generate_variations(r.val))
\* NaturalLanguageAgent.process_query: the outcomes for one request
agent_process_query(client, req, resp, expansion) ==
    IF ~client THEN {Raise("Exception")}
    ELSE {AgentAfterParse(r) : r \in parse(req, now, llm, langchain, jira_username, resp, expansion)}

(***************************************************************************)
(* The pattern path on requests that name a project                        *)
(***************************************************************************)
ProjectMarkers == { <<"U5C08", "U6848">>, <<"p", "r", "o", "j", "e", "c", "t">>, <<"P", "r", "o", "j", "e", "c", "t">> }
ProjectNames == { <<"A", "B", "C">>, <<"K", "F", "C", "2">>, <<"w", "e", "b", "_", "1">> }
ProjectPrefixes == { << >>, <<"U6211", "U7684">>, <<"p", "r", "o", "j", "e", "c", "t", "s", " ", "o", "f", " ">>, <<"U5C08", "U6848", "U9032", "U5EA6", " ">> }
ProjectSuffixes == { << >>, <<" ", "U4E2D", "U6211", "U7684", "U5DE5", "U4F5C">>, <<"U4E2D", "U6211", "U7684", "U5DE5", "U4F5C">>, <<" ", "t", "a", "s", "k", "s">> }
ProjectTexts ==
    {pre \o marker \o <<" ">> \o name \o post :
        pre \in ProjectPrefixes, marker \in ProjectMarkers,
        name \in ProjectNames, post \in ProjectSuffixes}

InitProject ==
    /\ InitTime
    /\ now = Date(2025, 3, 24)

\* parse without a completion capability: _basic_parse(query)
ExtractProject ==
    /\ pc = "idle"
    /\ ~llm
    /\ \E text \in ProjectTexts :
          /\ request' = PlainRequest(text)
          /\ parsed' = _basic_parse(text, now, llm, langchain, NoExpansion)
          /\ intent' = IF parsed'.raised THEN NoIntent ELSE parsed'.val
    /\ pc' = "extracted"
    /\ UNCHANGED <<env, response, jql, jql_again, time_range, jira_client, reconciled>>

NextProject == ExtractProject \/ NextRequest
SpecProject == InitProject /\ [][NextProject]_vars

(***************************************************************************)
(* The pattern path on requests that combine its signals                   *)
(***************************************************************************)
UserParts == { << >>, <<"U6211">>, <<"U6211", "U7684">> }
TimeParts == { << >>, <<"U4ECA", "U5929">>, <<"2", "0", "2", "5", " ", "Q", "1", " ">>, <<"2", "0", "2", "4", "U5E74", "1", "2", "U6708">> }
StatusParts ==
    { << >>, <<"U5B8C", "U6210">>, <<"d", "o", "n", "e", " ">>, <<"D", "o", "n", "e", " ">>, <<"U9032", "U884C", "U4E2D">>, <<"i", "n", " ", "p", "r", "o", "g", "r", "e", "s", "s", " ">>, <<"U5F85", "U8FA6">>, <<"t", "o", " ", "d", "o", " ">> }
ProjectParts == { << >>, <<"U5C08", "U6848", " ", "A", "B", "C", " ">> }
TailParts == { <<"U7684", "U5DE5", "U4F5C">>, <<" ", "t", "a", "s", "k", "s">> }
PatternTexts ==
    {p \o u \o t \o s \o tail :
        p \in ProjectParts, u \in UserParts, t \in TimeParts, s \in StatusParts,
        tail \in TailParts}

InitPattern == InitProject

\* parse without a completion capability, on a request that combines signals
ExtractSignals ==
    /\ pc = "idle"
    /\ ~llm
    /\ \E text \in PatternTexts :
       \E r \in parse(PlainRequest(text), now, llm, langchain, jira_username, NoResponse,
                      NoExpansion) :
          /\ request' = PlainRequest(text)
          /\ parsed' = r
          /\ intent' = IF r.raised THEN NoIntent ELSE r.val
          /\ pc' = IF r.raised THEN "raised" ELSE "parsed"
    /\ UNCHANGED <<env, response, jql, jql_again, rest>>

NextPattern == ExtractSignals \/ Generate \/ NextRequest
SpecPattern == InitPattern /\ [][NextPattern]_vars

(***************************************************************************)
(* The reconciler on its own: process_query from the point where the       *)
(* compiler has returned its list of queries                               *)
(***************************************************************************)
\* request texts with and without the trigger phrases of the sort stage
SortTexts ==
    { <<"U6700", "U65B0", "U6700", "U4E45", "U7684", "U5DE5", "U4F5C">>, <<"U6700", "U8FD1", "U7559", "U8A00">>, <<"U7559", "U8A00", "U6700", "U591A">>, <<"U6211", "U7684", "U5DE5", "U4F5C">> }

\* lists of compiled queries
MaxQueries == 2
CompiledQuery(n) ==
    IF n = 1 THEN basic_query
    ELSE <<"p", "r", "o", "j", "e", "c", "t", " ", "=", " ", "'", "P">> \o IntToStr(n) \o <<"'", " ", "O", "R", "D", "E", "R", " ", "B", "Y", " ", "u", "p", "d", "a", "t", "e", "d", " ", "D", "E", "S", "C">>
JqlLists == {[i \in 1..n |-> CompiledQuery(i)] : n \in 1..MaxQueries}

\* what the backend answers to each query of a list of n
BackendFor(n) ==
    IF n = 1 THEN {<<a>> : a \in BackendAnswers}
    ELSE {<<a>> \o b : a \in BackendAnswers, b \in SeqsUpTo(SecondAnswers, n - 1) \ SeqsUpTo(SecondAnswers, n - 2)}

InitReconcile ==
    /\ now \in {Date(2025, 6, 15)}
    /\ llm \in BOOLEAN
    /\ langchain = TRUE
    /\ jira_username = <<"b", "o", "b">>
    /\ pc = "idle"
    /\ request = NoRequest
    /\ response = NoResponse
    /\ parsed = NoOutcome
    /\ intent = NoIntent
    /\ jql = NoOutcome
    /\ jql_again = NoOutcome
    /\ time_range = NoOutcome
    /\ jira_client \in BOOLEAN
    /\ all_results = << >>
    /\ unique_results = << >>
    /\ sorted_results = << >>
    /\ filtered_results = << >>
    /\ payload = NoPayload
    /\ backend = << >>
    /\ filter_result = NoFilterResult
    /\ agent_result = NoOutcome

\* process_query up to the return of generate_variations with a list
CompilerReturns ==
    /\ pc = "idle"
    /\ \E text \in SortTexts, queries \in JqlLists :
          /\ request' = PlainRequest(text)
          /\ intent' = QueryIntent("search_issues", 6, EmptyMap)
          /\ parsed' = Ret(intent')
          /\ jql' = Ret(queries)
          /\ \E answers \in BackendFor(Len(queries)) : backend' = answers
    /\ pc' = "compiled"
    /\ UNCHANGED <<env, response, jql_again, time_range, jira_client, all_results, unique_results,
                   sorted_results, filtered_results, payload, filter_result, agent_result>>

\* step 3 of process_query: run every query
Execute ==
    /\ pc = "compiled"
    /\ ~jql.raised
    /\ all_results' = ExecuteAll(jira_client, jql.val, backend)
    /\ pc' = "executed"
    /\ UNCHANGED <<env, response, request, parsed, intent, jql, jql_again, time_range, jira_client,
                   unique_results, sorted_results, filtered_results, payload, backend,
                   filter_result, agent_result>>

\* the deduplication that follows
Deduplicate ==
    /\ pc = "executed"
    /\ unique_results' = Deduplicated(all_results)
    /\ pc' = "deduplicated"
    /\ UNCHANGED <<env, response, request, parsed, intent, jql, jql_again, time_range, jira_client,
                   all_results, sorted_results, filtered_results, payload, backend,
                   filter_result, agent_result>>

\* sorted_results = smart_sort(unique_results, query_text)
SmartSort ==
    /\ pc = "deduplicated"
    /\ sorted_results' = smart_sort(unique_results, request.text)
    /\ pc' = "sorted"
    /\ UNCHANGED <<env, response, request, parsed, intent, jql, jql_again, time_range, jira_client,
                   all_results, unique_results, filtered_results, payload, backend,
                   filter_result, agent_result>>

\* step 5 of process_query: the capability is called only with records and a
\* capability at hand
RelevancePass ==
    /\ pc = "sorted"
    /\ \E answer \in (IF sorted_results # << >> /\ llm THEN FilterResults ELSE {NoFilterResult}) :
          /\ filter_result' = answer
          /\ filtered_results' = relevance_pass(sorted_results, llm, answer)
    /\ pc' = "filtered"
    /\ UNCHANGED <<env, response, request, parsed, intent, jql, jql_again, time_range, jira_client,
                   all_results, unique_results, sorted_results, payload, backend, agent_result>>

\* the return statement of process_query
ResultCap == 20
\* no truncation
Whole(s, n) == s
\* s[:n]
Take(s, n) == SubSeq(s, 1, IF Len(s) < n THEN Len(s) ELSE n)
ReturnPayload ==
    /\ pc = "filtered"
    /\ payload' = [returned |-> TRUE,
                   query |-> request.text,
                   intent |-> [intent_type |-> intent.intent_type,
                               confidence |-> intent.confidence,
                               entities |-> intent.entities],
                   jql_queries |-> jql.val,
                   results |-> Take(filtered_results, ResultCap),
                   total_count |-> Len(filtered_results)]
    /\ pc' = "returned"
    /\ UNCHANGED <<env, response, request, parsed, intent, jql, jql_again, time_range, jira_client,
                   all_results, unique_results, sorted_results, filtered_results, backend,
                   filter_result, agent_result>>

\* a request to NaturalLanguageAgent.process_query
AgentProcessQuery ==
    /\ pc = "idle"
    /\ \E text \in SortTexts :
       \E resp \in (IF llm THEN Responses ELSE {NoResponse}) :
       \E expansion \in (IF llm THEN Expansions ELSE {NoExpansion}) :
       \E o \in agent_process_query(jira_client, PlainRequest(text), resp, expansion) :
          /\ request' = PlainRequest(text)
          /\ response' = resp
          /\ agent_result' = o
    /\ pc' = "answered"
    /\ UNCHANGED <<env, parsed, intent, jql, jql_again, time_range, jira_client, all_results,
                   unique_results, sorted_results, filtered_results, payload, backend,
                   filter_result>>

NextReconcile ==
    CompilerReturns \/ Execute \/ Deduplicate \/ SmartSort \/ RelevancePass \/ ReturnPayload
      \/ AgentProcessQuery \/ NextRequest
SpecReconcile == InitReconcile /\ [][NextReconcile]_vars

(***************************************************************************)
(* The keyword expansion of the primary path (SpecKeywords)                *)
(***************************************************************************)
\* keyword phrases the completion capability can extract: several words, one
\* word, a short phrase, a short word inside a phrase, and two words with an
\* ideographic space between them
KeywordPhrases ==
    { <<"w", "e", "b", " ", "v", "i", "e", "w">>, <<"w", "e", "b">>, <<"U", "I">>, <<"U", "I", " ", "w", "e", "b">>, <<"U6392", "U884C", "U699C", "U3000", "K", "F", "C">> }
\* "main" holds at most MaxKeywords phrases
MaxKeywords == 2
RECURSIVE KeywordListsUpTo(_)
KeywordListsUpTo(n) ==
    IF n = 0 THEN {<< >>}
    ELSE KeywordListsUpTo(n - 1)
           \cup {Append(l, p) : l \in KeywordListsUpTo(n - 1), p \in KeywordPhrases}
KeywordLists == KeywordListsUpTo(MaxKeywords)

InitKeywords ==
    /\ now = Date(2025, 6, 15)
    /\ llm = TRUE
    /\ langchain = TRUE
    /\ jira_username = <<"b", "o", "b">>
    /\ pc = "idle"
    /\ request = NoRequest
    /\ response = NoResponse
    /\ parsed = NoOutcome
    /\ intent = NoIntent
    /\ jql = NoOutcome
    /\ jql_again = NoOutcome
    /\ time_range = NoOutcome
    /\ jira_client = TRUE
    /\ all_results = << >>
    /\ unique_results = << >>
    /\ sorted_results = << >>
    /\ filtered_results = << >>
    /\ payload = NoPayload
    /\ backend = << >>
    /\ filter_result = NoFilterResult
    /\ agent_result = NoOutcome

\* parse with a capability that answers a JSON object whose keywords.main is
\* one of the keyword lists
ExpandKeywords ==
    /\ pc = "idle"
    /\ \E main \in KeywordLists :
       \E r \in parse(PlainRequest(<<"w", "e", "b", " ", "v", "i", "e", "w">>), now, llm, langchain, jira_username,
                      ObjectResponse(KeywordsMap(main, << >>), None, None), NoExpansion) :
          /\ request' = PlainRequest(<<"w", "e", "b", " ", "v", "i", "e", "w">>)
          /\ response' = ObjectResponse(KeywordsMap(main, << >>), None, None)
          /\ parsed' = r
          /\ intent' = IF r.raised THEN NoIntent ELSE r.val
    /\ pc' = "expanded"
    /\ UNCHANGED <<env, jql, jql_again, rest>>

NextKeywords == ExpandKeywords \/ NextRequest
SpecKeywords == InitKeywords /\ [][NextKeywords]_vars

(***************************************************************************)
(* The primary path on its own (SpecPrimary)                               *)
(***************************************************************************)
\* request texts with a quarter, a year and month, a relative term, or no
\* time expression
PrimaryTexts ==
    { <<"U6211", " ", "2", "0", "2", "5", " ", "Q", "1", " ", "U7684", "U5DE5", "U4F5C">>, <<"2", "0", "2", "5", " ", "Q", "4", " ", "l", "o", "g", "i", "n", " ", "b", "u", "g">>, <<"2", "0", "2", "4", "U5E74", "1", "2", "U6708">>, <<"U4ECA", "U5929", " ", "l", "o", "g", "i", "n">>, <<"l", "o", "g", "i", "n", " ", "b", "u", "g">> }
PrimaryRequests ==
    {PlainRequest(t) : t \in PrimaryTexts}
      \cup {DictRequest(t, y, uc) : t \in PrimaryTexts, y \in Years, uc \in UserConditionMaps}

InitPrimary == InitKeywords

\* parse with the completion capability present
ParsePrimary ==
    /\ pc = "idle"
    /\ \E req \in PrimaryRequests :
       \E resp \in Responses :
       \E expansion \in Expansions :
       \E r \in parse(req, now, llm, langchain, jira_username, resp, expansion) :
          /\ request' = req
          /\ response' = resp
          /\ parsed' = r
          /\ intent' = IF r.raised THEN NoIntent ELSE r.val
          /\ pc' = IF r.raised THEN "raised" ELSE "parsed"
    /\ UNCHANGED <<env, jql, jql_again, rest>>

NextPrimary == ParsePrimary \/ Generate \/ NextRequest
SpecPrimary == InitPrimary /\ [][NextPrimary]_vars

(***************************************************************************)
(* Properties of the pipeline (Spec) and of the compiler (SpecCompile)     *)
(***************************************************************************)
TimeRangeOf(entities) == Get(entities, "time_range", None)
HasNoTimeRange(entities) == TimeRangeOf(entities) = None
Returned(outcome) == outcome.err # "none" /\ ~outcome.raised

\* C1: parse never raises to its caller: whatever the request and whatever the
\* completion capability does, the outcome of parse is a returned QueryIntent.
ParseNeverRaises == ~parsed.raised

\* C2: for every intent the extractor produced, generate_variations returns a
\* list of exactly one query string.
ExtractedIntentCompilesToOneQuery ==
    pc = "compiled" => Returned(jql) /\ Len(jql.val) = 1

\* a query string read left to right: parentheses outside literals are balanced,
\* a single quote opens a literal, the next unescaped single quote closes it and
\* is followed by a space, a closing parenthesis or the end of the string
RECURSIVE WellFormedFrom(_, _, _, _)
WellFormedFrom(q, i, inLiteral, depth) ==
    IF i > Len(q) THEN ~inLiteral /\ depth = 0
    ELSE IF inLiteral
    THEN IF q[i] = "\\" THEN WellFormedFrom(q, i + 2, TRUE, depth)
         ELSE IF q[i] = "'"
         THEN /\ (i = Len(q) \/ q[i + 1] \in {" ", ")"})
              /\ WellFormedFrom(q, i + 1, FALSE, depth)
         ELSE WellFormedFrom(q, i + 1, TRUE, depth)
    ELSE IF q[i] = "'" THEN WellFormedFrom(q, i + 1, TRUE, depth)
    ELSE IF q[i] = "(" THEN WellFormedFrom(q, i + 1, FALSE, depth + 1)
    ELSE IF q[i] = ")" THEN depth > 0 /\ WellFormedFrom(q, i + 1, FALSE, depth - 1)
    ELSE WellFormedFrom(q, i + 1, FALSE, depth)
WellFormed(q) == WellFormedFrom(q, 1, FALSE, 0)

\* C3: every compiled query string is well-formed: balanced parentheses and
\* every literal in a properly closed pair of single quotes, also when a value
\* contains a single quote.
CompiledQueriesWellFormed ==
    (pc = "compiled" /\ Returned(jql)) => \A i \in DOMAIN jql.val : WellFormed(jql.val[i])

\* the top-level clauses in the documented order: project, time range (both
\* bounds present), user relation (one bare, several parenthesized and
\* OR-joined), keywords (main then related, parenthesized and OR-joined)
DocumentedProject(e) ==
    IF Has(e, "project") /\ Truthy(e.project)
    THEN <<<<"p", "r", "o", "j", "e", "c", "t", " ", "=", " ", "'">> \o e.project[1] \o <<"'">>>> ELSE << >>
DocumentedTime(e) ==
    IF Has(e, "time_range") /\ e.time_range # None
       /\ Truthy(e.time_range[1].start) /\ Truthy(e.time_range[1].end)
    THEN <<<<"c", "r", "e", "a", "t", "e", "d", " ", ">", "=", " ", "'">> \o e.time_range[1].start[1] \o <<"'", " ", "A", "N", "D", " ", "c", "r", "e", "a", "t", "e", "d", " ", "<", "=", " ", "'">>
             \o e.time_range[1].end[1] \o <<"'">>>>
    ELSE << >>
DocumentedGroup(conds) == <<"(">> \o Join(<<" ", "O", "R", " ">>, conds) \o <<")">>
DocumentedUser(e) ==
    IF ~Has(e, "user_conditions") \/ e.user_conditions = << >> THEN << >>
    ELSE IF Len(e.user_conditions) = 1 THEN e.user_conditions
    ELSE <<DocumentedGroup(e.user_conditions)>>
DocumentedKeywords(e) ==
    LET conds == Get(e, "main_keyword_conditions", << >>)
                   \o Get(e, "related_keyword_conditions", << >>)
    IN  IF conds = << >> THEN << >> ELSE <<DocumentedGroup(conds)>>
DocumentedClauses(e) ==
    DocumentedProject(e) \o DocumentedTime(e) \o DocumentedUser(e) \o DocumentedKeywords(e)

\* C4: a compiled query of a non-exclusionary intent with at least one clause is
\* the AND-join of its clauses in the order project, time range, user relation,
\* keywords, followed by the ordering suffix; nothing else appears.
CompiledQueryIsOrderedAndJoin ==
    (pc = "compiled" /\ Returned(jql) /\ ~intent.attrs.is_exclusion
       /\ DocumentedClauses(intent.entities) # << >>)
    => jql.val = <<Join(<<" ", "A", "N", "D", " ">>, DocumentedClauses(intent.entities))
                     \o <<" ", "O", "R", "D", "E", "R", " ", "B", "Y", " ", "u", "p", "d", "a", "t", "e", "d", " ", "D", "E", "S", "C">>>>

AllFourClausesCompiled ==
    /\ pc = "compiled" /\ Returned(jql) /\ ~intent.attrs.is_exclusion
    /\ DocumentedProject(intent.entities) # << >>
    /\ DocumentedTime(intent.entities) # << >>
    /\ Has(intent.entities, "user_conditions") /\ Len(intent.entities.user_conditions) = 2
    /\ Get(intent.entities, "main_keyword_conditions", << >>) # << >>
    /\ Get(intent.entities, "related_keyword_conditions", << >>) # << >>

\* C5: an intent from which no clause is produced compiles to the permissive
\* default query 'project IS NOT EMPTY ORDER BY updated DESC'.
NoClauseCompilesToDefault ==
    (pc = "compiled" /\ DocumentedClauses(intent.entities) = << >>
       /\ ~Get(intent.entities, "is_exclusion", FALSE))
    => jql = Ret(<<<<"p", "r", "o", "j", "e", "c", "t", " ", "I", "S", " ", "N", "O", "T", " ", "E", "M", "P", "T", "Y", " ", "O", "R", "D", "E", "R", " ", "B", "Y", " ", "u", "p", "d", "a", "t", "e", "d", " ", "D", "E", "S", "C">>>>)

\* C6: an intent whose entities say is_exclusion = true compiles to a query of
\* its project, time-range and user clauses only: the query the same intent
\* without keyword conditions would compile to as a non-exclusionary one.
ExclusionaryIntentDropsKeywords ==
    (pc = "compiled" /\ Get(intent.entities, "is_exclusion", FALSE))
    => /\ Returned(jql)
       /\ LET others == DocumentedProject(intent.entities)
                          \o DocumentedTime(intent.entities)
                          \o DocumentedUser(intent.entities)
          IN  jql.val = IF others = << >>
                        THEN <<<<"p", "r", "o", "j", "e", "c", "t", " ", "I", "S", " ", "N", "O", "T", " ", "E", "M", "P", "T", "Y", " ", "O", "R", "D", "E", "R", " ", "B", "Y", " ", "u", "p", "d", "a", "t", "e", "d", " ", "D", "E", "S", "C">>>>
                        ELSE <<Join(<<" ", "A", "N", "D", " ">>, others) \o <<" ", "O", "R", "D", "E", "R", " ", "B", "Y", " ", "u", "p", "d", "a", "t", "e", "d", " ", "D", "E", "S", "C">>>>

ScenarioRequest ==
    DictRequest(<<"U6211", " ", "2", "0", "2", "5", " ", "Q", "1", " ", "U7684", "U5DE5", "U4F5C">>, None, [assignee |-> TRUE])
ScenarioQueries ==
    { <<"a", "s", "s", "i", "g", "n", "e", "e", " ", "=", " ", "'", "c", "u", "r", "r", "e", "n", "t", "U", "s", "e", "r", "(", ")", "'", " ", "A", "N", "D", " ", "c", "r", "e", "a", "t", "e", "d", " ", ">", "=", " ", "'", "2", "0", "2", "5", "-", "0", "1", "-", "0", "1", "'", " ", "A", "N", "D", " ", "c", "r", "e", "a", "t", "e", "d", " ", "<", "=", " ", "'", "2", "0", "2", "5", "-", "0", "3", "-", "3", "1", "'", " ", "O", "R", "D", "E", "R", " ", "B", "Y", " ", "u", "p", "d", "a", "t", "e", "d", " ", "D", "E", "S", "C">>,
      <<"c", "r", "e", "a", "t", "e", "d", " ", ">", "=", " ", "'", "2", "0", "2", "5", "-", "0", "1", "-", "0", "1", "'", " ", "A", "N", "D", " ", "c", "r", "e", "a", "t", "e", "d", " ", "<", "=", " ", "'", "2", "0", "2", "5", "-", "0", "3", "-", "3", "1", "'", " ", "A", "N", "D", " ", "a", "s", "s", "i", "g", "n", "e", "e", " ", "=", " ", "'", "c", "u", "r", "r", "e", "n", "t", "U", "s", "e", "r", "(", ")", "'", " ", "O", "R", "D", "E", "R", " ", "B", "Y", " ", "u", "p", "d", "a", "t", "e", "d", " ", "D", "E", "S", "C">> }
QuarterScenarioCompiles ==
    request = ScenarioRequest
    => /\ pc # "raised"
       /\ pc \in {"parsed", "compiled"}
            => /\ TimeRangeOf(intent.entities) # None
               /\ TimeRangeOf(intent.entities)[1].start \in { <<"2", "0", "2", "5", "-", "0", "1", "-", "0", "1">>, Some(<<"2", "0", "2", "5", "-", "0", "1", "-", "0", "1">>) }
               /\ TimeRangeOf(intent.entities)[1].end \in { <<"2", "0", "2", "5", "-", "0", "3", "-", "3", "1">>, Some(<<"2", "0", "2", "5", "-", "0", "3", "-", "3", "1">>) }
       /\ pc = "compiled" => Returned(jql) /\ Len(jql.val) = 1 /\ jql.val[1] \in ScenarioQueries

\* the quarters "Y Qn" a text mentions, Y the current or the prior year
QuarterMentions(text, today) ==
    {yq \in AllowedYears(today) \X (1..4) :
        Contains(text, IntToStr(yq[1]) \o <<" ", "Q">> \o IntToStr(yq[2]))}
DocumentedQuarterStart == <<<<"-", "0", "1", "-", "0", "1">>, <<"-", "0", "4", "-", "0", "1">>, <<"-", "0", "7", "-", "0", "1">>, <<"-", "1", "0", "-", "0", "1">>>>
DocumentedQuarterEnd == <<<<"-", "0", "3", "-", "3", "1">>, <<"-", "0", "6", "-", "3", "0">>, <<"-", "0", "9", "-", "3", "0">>, <<"-", "1", "2", "-", "3", "1">>>>

\* C9: on the pattern-matching path, a text that mentions one quarter "Y Qn" of
\* the current or the prior year parses to an intent whose time range is the
\* fixed bounds of that quarter.
QuarterTextResolvesToBounds ==
    (~llm /\ pc # "idle" /\ Cardinality(QuarterMentions(request.text, now)) = 1)
    => \A yq \in QuarterMentions(request.text, now) :
          /\ ~parsed.raised
          /\ TimeRangeOf(intent.entities) # None
          /\ TimeRangeOf(intent.entities)[1].start = IntToStr(yq[1]) \o DocumentedQuarterStart[yq[2]]
          /\ TimeRangeOf(intent.entities)[1].end = IntToStr(yq[1]) \o DocumentedQuarterEnd[yq[2]]

\* texts whose only year, 2019, is outside the window of every evaluation date
OutOfWindowTexts == { <<"2", "0", "1", "9", " ", "Q", "2">>, <<"2", "0", "1", "9", "U5E74", "3", "U6708">>, <<"2", "0", "1", "9">> }
YearFieldOutOfWindow ==
    request.year # None /\ StrToInt(request.year[1]) \notin AllowedYears(now)

\* C10: a year that is neither the current nor the prior one never resolves:
\* the intent parsed from such a text on the pattern-matching path, or from a
\* request whose year field is such a year on the primary path, has no time range.
OutOfWindowYearNeverResolves ==
    (pc \in {"parsed", "compiled"}
       /\ \/ ~llm /\ request.text \in OutOfWindowTexts
          \/ llm /\ intent.confidence = 9 /\ YearFieldOutOfWindow)
    => HasNoTimeRange(intent.entities)


\* a formatted date YYYY-MM-DD read back as a date
DateOf(text) ==
    Date(StrToInt(SubSeq(text, 1, 4)), StrToInt(SubSeq(text, 6, 7)),
         StrToInt(SubSeq(text, 9, 10)))

\* C11: every relative-time phrase resolves, at every evaluation date, to a span
\* with start <= end whose two dates lie between January 1 of the prior year
\* and December 31 of the current year.
RelativeSpanWithinTwoYears ==
    pc = "resolved"
    => /\ ~time_range.raised /\ time_range.val # None
       /\ DateLeq(DateOf(time_range.val[1].start), DateOf(time_range.val[1].end))
       /\ DateLeq(Date(now.y - 1, 1, 1), DateOf(time_range.val[1].start))
       /\ DateLeq(DateOf(time_range.val[1].end), Date(now.y, 12, 31))

(***************************************************************************)
(* Properties of the reconciler                                            *)
(***************************************************************************)
\* the position of the first record of a list that carries a key
FirstIndex(results, key) ==
    CHOOSE i \in 1..Len(results) :
        /\ results[i].key = key
        /\ \A j \in 1..(i - 1) : results[j].key # key
KeysOf(results) == {results[i].key : i \in 1..Len(results)}
AfterDeduplicate == pc \in {"deduplicated", "sorted", "filtered", "returned"}

\* C12: after merging, the reconciled list holds every identifier of the
\* merged list once and no other, the record kept for an identifier is the
\* first one seen in query-execution order, with that occurrence's fields,
\* and the records stand in first-seen order
ReconciledKeepsFirstSeen ==
    AfterDeduplicate
    => /\ KeysOf(unique_results) = KeysOf(all_results)
       /\ \A i, j \in 1..Len(unique_results) :
             i < j => /\ unique_results[i].key # unique_results[j].key
                      /\ FirstIndex(all_results, unique_results[i].key)
                           < FirstIndex(all_results, unique_results[j].key)
       /\ \A i \in 1..Len(unique_results) :
             unique_results[i] = all_results[FirstIndex(all_results, unique_results[i].key)]
\* two queries returned records with the same identifier and different fields
SameKeyMergedTwice ==
    /\ pc = "deduplicated"
    /\ Len(unique_results) >= 2
    /\ \E i, j \in 1..Len(all_results) :
          /\ i < j
          /\ all_results[i].key = all_results[j].key
          /\ all_results[i] # all_results[j]


\* the request names a phrase of a list
Mentions(words) == AnyIn(words, StrLower(request.text))
MentionsLongest == Mentions(<< <<"U6700", "U4E45">>, <<"U8655", "U7406", "U6700", "U4E45">>, <<"U6301", "U7E8C", "U6700", "U4E45">>, <<"U6700", "U9577", "U6642", "U9593">>, <<"U6700", "U9577">> >>)
MentionsRecent == Mentions(<< <<"U6700", "U65B0">>, <<"U6700", "U8FD1">>, <<"U65B0", "U5EFA">> >>)
MentionsComments == Mentions(<< <<"U7559", "U8A00", "U6578">>, <<"U8A55", "U8AD6", "U6578">>, <<"U8A0E", "U8AD6">>, <<"U7559", "U8A00">>, <<"U8A55", "U8AD6">> >>)
AfterSort == pc \in {"sorted", "filtered", "returned"}
\* two lists hold the same records
SameRecords(a, b) ==
    /\ Len(a) = Len(b)
    /\ Range(a) = Range(b)
\* the documented rank of a record in the longest-processing order
DocumentedTier(x) ==
    IF x.processing_days # None THEN 2 ELSE IF x.duration_days # None THEN 1 ELSE 0
DocumentedDays(x) ==
    IF x.processing_days # None THEN x.processing_days[1]
    ELSE IF x.duration_days # None THEN x.duration_days[1] ELSE 0
\* the records of a list stand in descending order of a text field, of the
\* comment count, of the documented group
DescendingCreated(results) ==
    \A i, j \in 1..Len(results) :
        i < j => ~TupleLess(Ords(results[i].created), Ords(results[j].created))
DescendingUpdated(results) ==
    \A i, j \in 1..Len(results) :
        i < j => ~TupleLess(Ords(results[i].updated), Ords(results[j].updated))
DescendingComments(results) ==
    \A i, j \in 1..Len(results) :
        i < j => results[i].comment_count >= results[j].comment_count
DescendingTier(results) ==
    \A i, j \in 1..Len(results) :
        i < j => DocumentedTier(results[i]) >= DocumentedTier(results[j])

\* C13: the sort stage applies one strategy, chosen by the first of
\* longest-processing, most-recent, comment-volume that the request text
\* names and the default otherwise; most-recent orders by creation time
\* descending, comment-volume by comment count descending, the default by
\* last-modification time descending
OneStrategyByPriority ==
    AfterSort
    => /\ SameRecords(sorted_results, unique_results)
       /\ IF MentionsLongest THEN DescendingTier(sorted_results)
          ELSE IF MentionsRecent THEN DescendingCreated(sorted_results)
          ELSE IF MentionsComments THEN DescendingComments(sorted_results)
          ELSE DescendingUpdated(sorted_results)
\* a request naming both recency and comments, whose records the two
\* strategies order differently
RecentBeatsComments ==
    /\ pc = "sorted"
    /\ ~MentionsLongest /\ MentionsRecent /\ MentionsComments
    /\ sorted_results # unique_results
    /\ \E i, j \in 1..Len(sorted_results) :
          i < j /\ sorted_results[i].comment_count < sorted_results[j].comment_count

\* C14: under the longest-processing strategy every unresolved record stands
\* above every resolved record whatever their day counts, records with
\* neither metric stand last, and within a group the day count descends
UnresolvedAboveResolved ==
    (AfterSort /\ MentionsLongest)
    => \A i, j \in 1..Len(sorted_results) :
          i < j => \/ DocumentedTier(sorted_results[i]) > DocumentedTier(sorted_results[j])
                   \/ /\ DocumentedTier(sorted_results[i]) = DocumentedTier(sorted_results[j])
                      /\ DocumentedDays(sorted_results[i]) >= DocumentedDays(sorted_results[j])
\* an unresolved record of 30 days stands above a resolved one of 100 days,
\* and a record with neither metric is last
ThirtyAboveHundred ==
    /\ pc = "sorted"
    /\ MentionsLongest
    /\ Len(sorted_results) = 3
    /\ sorted_results[1].processing_days = Some(30)
    /\ sorted_results[2].duration_days = Some(100)
    /\ DocumentedTier(sorted_results[3]) = 0
    /\ sorted_results # unique_results


AfterPass == pc \in {"filtered", "returned"}
\* every member of relevant_tasks has a key and a number as its score
WellShaped(tasks) ==
    \A k \in 1..Len(tasks) :
        tasks[k].key # None /\ tasks[k].relevance_score.type = "number"
\* the answer is JSON of the documented shape and names at least one task
NamesTasks ==
    /\ filter_result.kind \in {"json", "fenced_json"}
    /\ filter_result.shape = "object"
    /\ filter_result.has_tasks
    /\ filter_result.tasks_are = "list"
    /\ filter_result.relevant_tasks # << >>
    /\ WellShaped(filter_result.relevant_tasks)
PassSucceeded == llm /\ sorted_results # << >> /\ NamesTasks
PassFailed == sorted_results # << >> /\ ~PassSucceeded

\* C15: whenever the relevance pass fails (no capability, the call raises,
\* an empty answer, an answer that is not JSON or JSON of another shape, or
\* one that names no task), the output is the pre-pass list, same members
\* in the same order
FailedPassKeepsPrePassList ==
    (AfterPass /\ PassFailed) => filtered_results = sorted_results

\* the score the answer returns for a key
IsNamed(key) ==
    \E k \in 1..Len(filter_result.relevant_tasks) :
        filter_result.relevant_tasks[k].key = Some(key)
ReturnedScore(key) ==
    filter_result.relevant_tasks[
        CHOOSE k \in 1..Len(filter_result.relevant_tasks) :
            filter_result.relevant_tasks[k].key = Some(key)].relevance_score.tenths
PositionIn(results, r) == CHOOSE i \in 1..Len(results) : results[i] = r

\* C16: after a successful relevance pass the output holds exactly the
\* pre-pass records whose returned score is above 0.3, once each, by score
\* descending, and records of equal score stand in their pre-pass order
SuccessfulPassKeepsAboveThreshold ==
    (AfterPass /\ PassSucceeded)
    => /\ Range(filtered_results)
            = {r \in Range(sorted_results) : IsNamed(r.key) /\ ReturnedScore(r.key) > 3}
       /\ Cardinality(Range(filtered_results)) = Len(filtered_results)
       /\ \A i, j \in 1..Len(filtered_results) :
             i < j => \/ ReturnedScore(filtered_results[i].key) > ReturnedScore(filtered_results[j].key)
                      \/ /\ ReturnedScore(filtered_results[i].key) = ReturnedScore(filtered_results[j].key)
                         /\ PositionIn(sorted_results, filtered_results[i])
                              < PositionIn(sorted_results, filtered_results[j])
\* a pass that drops a record scored exactly 0.3, moves a record up and
\* leaves two records of equal score
ScoresReorderAndDrop ==
    /\ pc = "filtered"
    /\ PassSucceeded
    /\ \E r \in Range(sorted_results) : IsNamed(r.key) /\ ReturnedScore(r.key) = 3
    /\ \E i, j \in 1..Len(filtered_results) :
          /\ i < j
          /\ ReturnedScore(filtered_results[i].key) = ReturnedScore(filtered_results[j].key)
    /\ \E i, j \in 1..Len(filtered_results) :
          /\ i < j
          /\ PositionIn(sorted_results, filtered_results[i])
               > PositionIn(sorted_results, filtered_results[j])

\* C17: in every returned payload results is the first min(20, total_count)
\* records of the filtered list and total_count is the length of the whole
\* filtered list
PayloadIsTruncatedPrefix ==
    payload.returned
    => /\ payload.total_count = Len(filtered_results)
       /\ Len(payload.results) = (IF payload.total_count < 20 THEN payload.total_count ELSE 20)
       /\ \A i \in 1..Len(payload.results) : payload.results[i] = filtered_results[i]
\* a payload of 20 records for a longer filtered list
PayloadTruncated ==
    /\ payload.returned
    /\ payload.total_count > 20
    /\ Len(payload.results) = 20


\* the records the documented execution collects from the k-th query on:
\* those of the queries that pass validation and whose execution succeeds
RECURSIVE DocumentedRecordsFrom(_)
DocumentedRecordsFrom(k) ==
    IF k > Len(backend) THEN << >>
    ELSE (IF backend[k].valid /\ ~backend[k].fails THEN backend[k].records ELSE << >>)
           \o DocumentedRecordsFrom(k + 1)

\* C18: query execution degrades without raising: with no backend client
\* the request yields zero records, a query that fails validation or whose
\* execution fails contributes none, the other queries contribute theirs,
\* and the request returns its payload
ExecutionDegradesWithoutRaising ==
    /\ pc \in {"executed", "deduplicated", "sorted", "filtered", "returned"}
         => all_results = (IF jira_client THEN DocumentedRecordsFrom(1) ELSE << >>)
    /\ pc = "returned" => payload.returned
    /\ (pc = "answered" /\ ~jira_client) => ~agent_result.raised


\* C19: no exception of the extractor, the compiler or the reconciler leaves
\* process_query: every request runs to the return statement and its mapping
\* {query, intent, jql_queries, results, total_count}
ProcessQueryNeverRaises ==
    /\ pc # "raised"
    /\ pc \in {"compiled", "executed", "deduplicated", "sorted", "filtered", "returned"}
         => ~jql.raised
    /\ pc = "returned"
         => /\ payload.returned
            /\ DOMAIN payload
                 = {"returned", "query", "intent", "jql_queries", "results", "total_count"}


\* a character of a project name
IsNameChar(c) == c \in UpperSet \/ c \in LowerSet \/ c \in DigitSet \/ c = "_"
\* the text holds a marker word, a space and the name, and the name ends there
NamesProjectAt(text, marker, name, i) ==
    /\ MatchAt(marker \o <<" ">> \o name, text, i)
    /\ \/ i + Len(marker) + Len(name) + 1 > Len(text)
       \/ ~IsNameChar(text[i + Len(marker) + Len(name) + 1])
NamesProject(text, name) ==
    \E marker \in ProjectMarkers, i \in 1..Len(text) : NamesProjectAt(text, marker, name, i)

\* C20: on the pattern path a request that holds a marker word followed by
\* a project name yields an intent whose project is exactly that name
ProjectIsTheNameAfterMarker ==
    pc = "extracted"
    => \A name \in ProjectNames :
          NamesProject(request.text, name)
          => /\ ~parsed.raised
             /\ Has(intent.entities, "project")
             /\ intent.entities.project = Some(name)


\* the fields a returned record carries
FieldsOf(record) == DOMAIN record
RelevanceFields == {"relevance_score", "relevance_reason"}

\* C26: a returned record carries relevance_score and relevance_reason if and
\* only if the relevance pass ran successfully for the request: after a
\* successful pass every returned record has both fields, after a skipped or
\* failed pass no returned record has either
RelevanceFieldsIffPassSucceeded ==
    pc = "returned"
    => \A i \in 1..Len(payload.results) :
          /\ PassSucceeded => RelevanceFields \subseteq FieldsOf(payload.results[i])
          /\ ~PassSucceeded => RelevanceFields \cap FieldsOf(payload.results[i]) = {}

(***************************************************************************)
(* Properties of the pattern path                                          *)
(***************************************************************************)
\* the request text holds a keyword, ignoring case
TextHolds(keyword) == Contains(StrLower(request.text), keyword)
StatusIs(value) == Has(intent.entities, "status") /\ intent.entities.status = <<value>>

\* C21: on the pattern path a request that holds a done keyword yields the
\* status ['Done'], one that holds an in-progress keyword ['In Progress'],
\* one that holds a to-do keyword ['To Do']
StatusKeywordSetsStatus ==
    (pc = "parsed" /\ request.text \in PatternTexts)
    => /\ (TextHolds(<<"U5B8C", "U6210">>) \/ TextHolds(<<"d", "o", "n", "e">>)) => StatusIs(<<"D", "o", "n", "e">>)
       /\ (TextHolds(<<"U9032", "U884C", "U4E2D">>) \/ TextHolds(<<"i", "n", " ", "p", "r", "o", "g", "r", "e", "s", "s">>)) => StatusIs(<<"I", "n", " ", "P", "r", "o", "g", "r", "e", "s", "s">>)
       /\ (TextHolds(<<"U5F85", "U8FA6">>) \/ TextHolds(<<"t", "o", " ", "d", "o">>)) => StatusIs(<<"T", "o", " ", "D", "o">>)


\* C22: parsing a request that holds a first-person marker yields an intent
\* that reports assignee = 'currentUser()', whatever else the request holds
FirstPersonSetsAssignee ==
    (pc = "parsed" /\ TextHolds(<<"U6211">>))
    => /\ Has(intent.entities, "assignee")
       /\ intent.entities.assignee = Some(<<"c", "u", "r", "r", "e", "n", "t", "U", "s", "e", "r", "(", ")">>)


\* C25: in every intent the extractor returns each key of entities carries
\* a constraint: no key is present with None or an empty list as its value
EntitiesKeysArePopulated ==
    pc = "parsed" => \A k \in DOMAIN intent.entities : intent.entities[k] # << >>


\* a substring of one of the returned queries
SomeQueryHolds(queries, clause) ==
    \E i \in DOMAIN queries : Contains(queries[i], clause)

\* C28: the compiler honours every constraint the pattern path recorded: for
\* an intent returned by _basic_parse, generate_variations returns a query
\* with a created >= / created <= clause when a time range was extracted, an
\* assignee clause when a first-person marker was detected, a status clause
\* when a status was detected and a keyword clause when keywords were
\* extracted
CompilerHonoursPatternIntent ==
    (pc = "compiled" /\ ~llm /\ ~parsed.raised)
    => /\ ~jql.raised
       /\ TimeRangeOf(parsed.val.entities) # None
            => /\ SomeQueryHolds(jql.val, <<"c", "r", "e", "a", "t", "e", "d", " ", ">", "=", " ", "'">>)
               /\ SomeQueryHolds(jql.val, <<"c", "r", "e", "a", "t", "e", "d", " ", "<", "=", " ", "'">>)
       /\ Has(parsed.val.entities, "assignee")
            => SomeQueryHolds(jql.val, <<"a", "s", "s", "i", "g", "n", "e", "e", " ", "=", " ">>)
       /\ Has(parsed.val.entities, "status")
            => SomeQueryHolds(jql.val, <<"s", "t", "a", "t", "u", "s">>)
       /\ Get(parsed.val.entities, "keywords", << >>) # << >>
            => SomeQueryHolds(jql.val, <<" ", "~", " ">>)

(***************************************************************************)
(* Properties of month resolution                                          *)
(***************************************************************************)
\* the whole month m of year y as the time range of an intent
WholeMonth(y, m) ==
    Some([kind |-> "tuple", start |-> FormatDate(Date(y, m, 1)),
          end |-> FormatDate(Date(y, m, DaysInMonth(y, m)))])

BareMonthIsLatestStarted ==
    (pc = "month_resolved" /\ request.text \in BareMonthTexts)
    => \A m \in 1..12 :
          MatchAt(BareMonthText(m), request.text, 1)
          => /\ ~parsed.raised
             /\ TimeRangeOf(intent.entities)
                  = WholeMonth(IF DateLeq(Date(now.y, m, 1), now) THEN now.y ELSE now.y - 1, m)
             /\ DateLeq(DateOf(TimeRangeOf(intent.entities)[1].start), now)
\* a month still ahead in the current year falls back to the prior year, and
\* a month that starts on the evaluation date stays in the current year
BareMonthFallsBack ==
    /\ pc = "month_resolved"
    /\ request.text = BareMonthText(12)
    /\ now.m < 12
    /\ TimeRangeOf(intent.entities) = WholeMonth(now.y - 1, 12)
BareMonthStartsToday ==
    /\ pc = "month_resolved"
    /\ now.d = 1
    /\ request.text = BareMonthText(now.m)
    /\ TimeRangeOf(intent.entities) = WholeMonth(now.y, now.m)

(***************************************************************************)
(* Properties of the keyword expansion                                     *)
(***************************************************************************)
\* the words of the phrases: each phrase split on whitespace, words longer
\* than 2 characters
DocumentedWords(keywords) ==
    {w \in UNION {Range(SplitWs(keywords[i])) : i \in DOMAIN keywords} : Len(w) > 2}

\* C27: the expansion yields exactly one parenthesized OR-group for each
\* distinct word longer than 2 characters that splitting the phrases on
\* whitespace gives, the group holding the deduplicated case variants of the
\* word; shorter phrases and words give no condition
OneGroupPerWord ==
    (pc = "expanded" /\ ~parsed.raised)
    => /\ Len(intent.entities.main_keyword_conditions)
            = Cardinality(DocumentedWords(response.keywords.main))
       /\ \A w \in DocumentedWords(response.keywords.main) :
             \E i \in DOMAIN intent.entities.main_keyword_conditions :
                intent.entities.main_keyword_conditions[i] \in WordGroups(w)

(***************************************************************************)
(* Properties of the primary path                                          *)
(***************************************************************************)
\* parse returned from its try block: the capability answered a JSON object
\* with usable keywords
PrimaryPathTaken == pc \in {"parsed", "compiled"} /\ llm /\ ~PrimaryFails(response)

\* C29: on the primary path, a request that carries an explicit year gets
\* the time range year-01-01 .. year-12-31, whatever time expression its text
\* holds and whatever time span the completion capability extracted
ExplicitYearIsWholeYear ==
    (PrimaryPathTaken /\ request.year # None)
    => /\ TimeRangeOf(parsed.val.entities) # None
       /\ TimeRangeOf(parsed.val.entities)[1].start = Some(request.year[1] \o <<"-", "0", "1", "-", "0", "1">>)
       /\ TimeRangeOf(parsed.val.entities)[1].end = Some(request.year[1] \o <<"-", "1", "2", "-", "3", "1">>)
\* the year 2019 of the request wins over the quarter of 2025 in the text and
\* over the span of 2025 the capability extracted
ExplicitYearBeatsTextAndAnswer ==
    /\ PrimaryPathTaken
    /\ request.year = Some(<<"2", "0", "1", "9">>)
    /\ Contains(request.text, <<"2", "0", "2", "5", " ", "Q", "4">>)
    /\ response.time # None
    /\ response.time[1].start = Some(<<"2", "0", "2", "5", "-", "0", "1", "-", "0", "1">>)
    /\ TimeRangeOf(parsed.val.entities)[1].start = Some(<<"2", "0", "1", "9", "-", "0", "1", "-", "0", "1">>)
    /\ TimeRangeOf(parsed.val.entities)[1].end = Some(<<"2", "0", "1", "9", "-", "1", "2", "-", "3", "1">>)


\* the request with the commenter flag the other way round
FlipCommenter(user_conditions) ==
    Put(user_conditions, "commenter", ~Flag(user_conditions, "commenter"))
OtherCommenter(req) == [req EXCEPT !.user_conditions = FlipCommenter(@)]
\* a returned query that names a user relation
HoldsUserRelation(query) ==
    \/ Contains(query, <<"a", "s", "s", "i", "g", "n", "e", "e", " ", "=", " ">>)
    \/ Contains(query, <<"r", "e", "p", "o", "r", "t", "e", "r", " ", "=", " ">>)
    \/ Contains(query, <<"c", "o", "m", "m", "e", "n", "t", "e", "d", "B", "y">>)

=============================================================================
